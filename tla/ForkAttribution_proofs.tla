------------------------ MODULE ForkAttribution_proofs ------------------------
(***************************************************************************)
(* Proofs about ForkAttribution, for any number of blocks, accounts and    *)
(* callbacks: what the entry of a height ends up with does not depend on   *)
(* the order in which the callbacks come to an end, and each counts a      *)
(* block once.                                                             *)
(***************************************************************************)
EXTENDS ForkAttribution, SequenceTheorems, FiniteSetTheorems, WellFoundedInduction, TLAPS

-----------------------------------------------------------------------------
(* Types *)

Entry == [authors : Seq(Shown), cause : Cause]

\* A callback in its loop stands at a block of the height, and the block whose
\* identity it waits for has its author; no entry comes before the blocks.
LoopInv ==
    /\ \A b \in Block :
          /\ snapshot[b] <= Len(atHeight)
          /\ stage[b] \in {"extract", "identity"} => loopAt[b] \in 1..Len(atHeight)
          /\ stage[b] = "identity" => atHeight[loopAt[b]] \in author
    /\ atHeight = <<>> => ring = <<>>

LEMMA IsSequence ==
    ASSUME NEW S, NEW k \in Nat, NEW f \in [1..k -> S]
    PROVE  f \in Seq(S)
  OBVIOUS

LEMMA ShownType ==
    ASSUME TypeOK, NEW b \in Block, NEW known, NEW named
    PROVE  ShownAuthor(b, known, named) \in Shown
  <1>1. Author[b] \in Account
    BY AttributionAssumption
  <1>2. (b \in named) \in BOOLEAN
    OBVIOUS
  <1>3. <<Author[b], b \in named>> \in Account \X BOOLEAN
    BY <1>1, <1>2, Zenon
  <1>4. QED
    BY <1>3, Zenon DEF ShownAuthor, Shown

LEMMA ShownAuthorsType ==
    ASSUME TypeOK, NEW k \in Nat, k <= Len(atHeight), NEW known, NEW named
    PROVE  /\ ShownAuthors(k, known, named) \in Seq(Shown)
           /\ Len(ShownAuthors(k, known, named)) = k
  <1>1. \A i \in 1..k : atHeight[i] \in Block
    BY DEF TypeOK
  <1>2. \A i \in 1..k : ShownAuthor(atHeight[i], known, named) \in Shown
    BY <1>1, ShownType
  <1>3. ShownAuthors(k, known, named) \in [1..k -> Shown]
    BY <1>2 DEF ShownAuthors
  <1>4. QED
    BY <1>3

\* The newest entry gets other authors, the entries keep their causes.
LEMMA UpdateEffect ==
    ASSUME TypeOK, UpdateForkAuthors
    PROVE  /\ ring' \in Seq(Entry) /\ Len(ring') = Len(ring)
           /\ \A i \in 1..Len(ring) : ring'[i].cause = ring[i].cause
           /\ ~pruned /\ ring # <<>> =>
                ring'[Len(ring')].authors = ShownAuthors(Len(atHeight), author', authorName')
  <1>1. ring \in Seq(Entry)
    BY DEF TypeOK, Entry
  <1>2. CASE pruned \/ ring = <<>>
    BY <1>1, <1>2 DEF UpdateForkAuthors
  <1>3. CASE ~(pruned \/ ring = <<>>)
    <2> DEFINE n == Len(ring)
               a == ShownAuthors(Len(atHeight), author', authorName')
    <2>1. ring' = [ring EXCEPT ![n].authors = a]
      BY <1>3 DEF UpdateForkAuthors
    <2>2. Len(atHeight) \in Nat
      BY DEF TypeOK
    <2>3. a \in Seq(Shown)
      BY <2>2, ShownAuthorsType
    <2>4. n \in 1..n /\ n \in Nat
      BY <1>1, <1>3
    <2> HIDE DEF a
    <2>5. ring[n] \in Entry
      BY <1>1, <2>4
    <2>6. [ring[n] EXCEPT !.authors = a] \in Entry
          /\ [ring[n] EXCEPT !.authors = a].cause = ring[n].cause
          /\ [ring[n] EXCEPT !.authors = a].authors = a
      BY <2>3, <2>5 DEF Entry
    <2>7. ring' = [ring EXCEPT ![n] = [ring[n] EXCEPT !.authors = a]]
      BY <2>1
    <2>8. /\ ring' \in Seq(Entry) /\ Len(ring') = n
          /\ ring'[n] = [ring[n] EXCEPT !.authors = a]
          /\ \A i \in 1..n : i # n => ring'[i] = ring[i]
      BY <1>1, <2>4, <2>6, <2>7
    <2>9. QED
      BY <2>6, <2>8 DEF a
  <1>4. QED
    BY <1>2, <1>3

\* Every non-empty set of natural numbers has a smallest element.
LEMMA LeastElement ==
    ASSUME NEW S, S \subseteq Nat, S # {}
    PROVE  \E m \in S : \A j \in S : m <= j
  <1> DEFINE less == OpToRel(<, Nat)
  <1>1. IsWellFoundedOn(less, Nat)
    BY NatLessThanWellFounded
  <1>2. \A j, m \in Nat : j < m => <<j, m>> \in less
    BY DEF OpToRel
  <1> HIDE DEF less
  <1>3. PICK m \in S : \A j \in S : ~(<<j, m>> \in less)
    BY <1>1, WFMin
  <1>4. \A j \in S : ~(j < m)
    BY <1>2, <1>3
  <1>5. QED
    BY <1>4

\* one stretch of an enrichment loop
LEMMA EnrichEffect ==
    ASSUME TypeOK, NEW b \in Block, NEW i \in Nat \ {0}, EnrichFrom(b, i)
    PROVE  /\ stage' \in [Block -> Stage] /\ loopAt' \in [Block -> Nat]
           /\ \A c \in Block : c # b => stage'[c] = stage[c] /\ loopAt'[c] = loopAt[c]
           /\ \/ stage'[b] = "done" /\ UpdateForkAuthors
              \/ /\ stage'[b] = "extract" /\ loopAt'[b] \in 1..Len(atHeight)
                 /\ atHeight[loopAt'[b]] \notin author' /\ UNCHANGED ring
  <1> DEFINE missing == {k \in i..Len(atHeight) : atHeight[k] \notin author'}
  <1>1. stage \in [Block -> Stage] /\ loopAt \in [Block -> Nat] /\ Len(atHeight) \in Nat
    BY DEF TypeOK
  <1>2. CASE missing = {}
    BY <1>1, <1>2 DEF EnrichFrom, Move, Stage
  <1>3. CASE missing # {}
    <2> DEFINE k == CHOOSE k \in missing : \A m \in missing : k <= m
    <2>1. /\ stage' = [stage EXCEPT ![b] = "extract"]
          /\ loopAt' = [loopAt EXCEPT ![b] = k] /\ UNCHANGED ring
      BY <1>3 DEF EnrichFrom, Move
    <2>2. \A m \in missing : m \in Nat /\ m \in 1..Len(atHeight) /\ atHeight[m] \notin author'
      BY <1>1
    <2> HIDE DEF missing
    <2>3. \E m \in missing : \A l \in missing : m <= l
      BY <1>3, <2>2, LeastElement
    <2>4. k \in missing
      BY <2>3
    <2> HIDE DEF k
    <2>5. k \in Nat /\ k \in 1..Len(atHeight) /\ atHeight[k] \notin author'
      BY <2>2, <2>4
    <2>6. QED
      BY <1>1, <2>1, <2>5 DEF Stage
  <1>4. QED
    BY <1>2, <1>3

\* The newest entry is replaced.
LEMMA ReplaceEffect ==
    ASSUME TypeOK, NEW e \in Entry, ring' = ReplaceNewest(e)
    PROVE  /\ ring' \in Seq(Entry) /\ Len(ring') = Len(ring)
           /\ \A i \in 1..Len(ring) : ring'[i] = ring[i] \/ ring'[i] = e
  <1>1. ring \in Seq(Entry)
    BY DEF TypeOK, Entry
  <1>2. CASE ring = <<>>
    BY <1>1, <1>2 DEF ReplaceNewest
  <1>3. CASE ring # <<>>
    <2> DEFINE n == Len(ring)
    <2>1. ring' = [ring EXCEPT ![n] = e] /\ n \in 1..n /\ n \in Nat
      BY <1>1, <1>3 DEF ReplaceNewest
    <2>2. ring \in [1..n -> Entry]
      BY <1>1
    <2>n. n = Len(ring)
      OBVIOUS
    <2> HIDE DEF n
    <2>3. DOMAIN ring = 1..n /\ \A i \in 1..n : ring[i] \in Entry
      BY <2>2
    <2>4. DOMAIN ring' = 1..n /\ \A i \in 1..n : ring'[i] = IF i = n THEN e ELSE ring[i]
      BY <2>1, <2>3
    <2>5. \A i \in 1..n : ring'[i] \in Entry
      BY <2>3, <2>4
    <2>6. ring' = [i \in 1..n |-> ring'[i]]
      BY <2>1, <2>2
    <2>7. ring' \in [1..n -> Entry]
      BY <2>5, <2>6
    <2>8. ring' \in Seq(Entry) /\ Len(ring') = n
      <3>1. ring' \in Seq(Entry)
        BY <2>1, <2>7, IsSequence
      <3>2. Len(ring') \in Nat /\ 1..Len(ring') = 1..n
        BY <2>4, <3>1
      <3>3. QED
        BY <2>1, <3>1, <3>2
    <2>9. QED
      BY <2>n, <2>4, <2>8
  <1>4. QED
    BY <1>2, <1>3

\* what the end of an analysis does
LEMMA ConcludeEffect ==
    ASSUME TypeOK, LoopInv, NEW b \in Block, NEW found \in Answers(b),
           Conclude(b, found)
    PROVE  /\ snapshot' \in [Block -> Nat] /\ \A c \in Block : snapshot'[c] <= Len(atHeight)
           /\ relayParent' \in [Block -> Seq(Lookup)]
           /\ \/ StartEnrichment(b)
              \/ \E e \in Entry : /\ ring' = ReplaceNewest(e)
                                  /\ e.cause = CauseOf(snapshot[b], found)
                                  /\ Move(b, "saving")
                                  /\ UNCHANGED <<author, authorName, loopAt>>
  <1>1. snapshot \in [Block -> Nat] /\ Len(atHeight) \in Nat /\ snapshot[b] \in Nat
        /\ snapshot[b] <= Len(atHeight) /\ \A c \in Block : snapshot[c] <= Len(atHeight)
    <2>1. snapshot \in [Block -> Nat] /\ Len(atHeight) \in Nat
      BY DEF TypeOK
    <2>2. \A c \in Block : snapshot[c] <= Len(atHeight)
      BY DEF LoopInv
    <2>3. QED
      BY <2>1, <2>2
  <1>2. snapshot' = [snapshot EXCEPT ![b] = 0] /\ relayParent' = [relayParent EXCEPT ![b] = <<>>]
    BY DEF Conclude
  <1>3. snapshot' \in [Block -> Nat] /\ \A c \in Block : snapshot'[c] <= Len(atHeight)
    BY <1>1, <1>2
  <1>4. relayParent' \in [Block -> Seq(Lookup)]
    BY <1>2 DEF TypeOK
  <1>5. ASSUME ~StartEnrichment(b)
        PROVE  \E e \in Entry : /\ ring' = ReplaceNewest(e)
                                /\ e.cause = CauseOf(snapshot[b], found)
                                /\ Move(b, "saving")
                                /\ UNCHANGED <<author, authorName, loopAt>>
    <2> DEFINE a == ShownAuthors(snapshot[b], author, authorName)
               c == CauseOf(snapshot[b], found)
               e == [authors |-> a, cause |-> c]
    <2>1. ring' = ReplaceNewest(e) /\ Move(b, "saving") /\ UNCHANGED <<author, authorName, loopAt>>
      BY <1>5 DEF Conclude
    <2>2. a \in Seq(Shown)
      BY <1>1, ShownAuthorsType
    <2>3. c \in Cause
      BY DEF CauseOf, Verdict, Cause
    <2> HIDE DEF a, c
    <2>4. e \in Entry /\ e.cause = c
      BY <2>2, <2>3 DEF Entry
    <2>5. QED
      BY <2>1, <2>4 DEF c
  <1>6. QED
    BY <1>3, <1>4, <1>5

\* A callback goes on with its loop, or ends.
Goes(b) ==
    \/ \E i \in Nat \ {0} : EnrichFrom(b, i)
    \/ pruned /\ Move(b, "done") /\ UNCHANGED <<loopAt, ring>>

LEMMA StartGoes ==
    ASSUME NEW b \in Block, StartEnrichment(b)
    PROVE  Goes(b) /\ UNCHANGED <<author, authorName>>
  BY DEF StartEnrichment, Goes

LEMMA GoesEffect ==
    ASSUME TypeOK, NEW b \in Block, Goes(b)
    PROVE  /\ stage' \in [Block -> Stage] /\ loopAt' \in [Block -> Nat]
           /\ ring' \in Seq(Entry) /\ Len(ring') = Len(ring)
           /\ \A i \in 1..Len(ring) : ring'[i].cause = ring[i].cause
           /\ \A c \in Block : c # b => stage'[c] = stage[c] /\ loopAt'[c] = loopAt[c]
           /\ \/ /\ stage'[b] = "done"
                 /\ ~pruned /\ ring # <<>> =>
                      ring'[Len(ring')].authors = ShownAuthors(Len(atHeight), author', authorName')
              \/ /\ stage'[b] = "extract" /\ loopAt'[b] \in 1..Len(atHeight)
                 /\ atHeight[loopAt'[b]] \notin author'
  <1>1. ring \in Seq(Entry) /\ stage \in [Block -> Stage] /\ loopAt \in [Block -> Nat]
    BY DEF TypeOK, Entry
  <1>2. CASE pruned /\ Move(b, "done") /\ UNCHANGED <<loopAt, ring>>
    BY <1>1, <1>2 DEF Move, Stage
  <1>3. ASSUME NEW i \in Nat \ {0}, EnrichFrom(b, i)
        PROVE  /\ stage' \in [Block -> Stage] /\ loopAt' \in [Block -> Nat]
               /\ ring' \in Seq(Entry) /\ Len(ring') = Len(ring)
               /\ \A j \in 1..Len(ring) : ring'[j].cause = ring[j].cause
               /\ \A c \in Block : c # b => stage'[c] = stage[c] /\ loopAt'[c] = loopAt[c]
               /\ \/ /\ stage'[b] = "done"
                     /\ ~pruned /\ ring # <<>> =>
                          ring'[Len(ring')].authors = ShownAuthors(Len(atHeight), author', authorName')
                  \/ /\ stage'[b] = "extract" /\ loopAt'[b] \in 1..Len(atHeight)
                     /\ atHeight[loopAt'[b]] \notin author'
    <2>1. /\ stage' \in [Block -> Stage] /\ loopAt' \in [Block -> Nat]
          /\ \A c \in Block : c # b => stage'[c] = stage[c] /\ loopAt'[c] = loopAt[c]
          /\ \/ stage'[b] = "done" /\ UpdateForkAuthors
             \/ /\ stage'[b] = "extract" /\ loopAt'[b] \in 1..Len(atHeight)
                /\ atHeight[loopAt'[b]] \notin author' /\ UNCHANGED ring
      BY <1>3, EnrichEffect
    <2>2. CASE stage'[b] = "done" /\ UpdateForkAuthors
      BY <2>1, <2>2, UpdateEffect
    <2>3. CASE /\ stage'[b] = "extract" /\ loopAt'[b] \in 1..Len(atHeight)
               /\ atHeight[loopAt'[b]] \notin author' /\ UNCHANGED ring
      BY <1>1, <2>1, <2>3
    <2>4. QED
      BY <2>1, <2>2, <2>3
  <1>4. QED
    BY <1>2, <1>3 DEF Goes

LEMMA GoesKeepsLoop ==
    ASSUME TypeOK, LoopInv, NEW b \in Block, Goes(b), UNCHANGED atHeight,
           author \subseteq author', \A c \in Block : snapshot'[c] <= Len(atHeight)
    PROVE  LoopInv'
  <1>1. /\ ring' \in Seq(Entry) /\ Len(ring') = Len(ring) /\ ring \in Seq(Entry)
        /\ \A c \in Block : c # b => stage'[c] = stage[c] /\ loopAt'[c] = loopAt[c]
        /\ \/ stage'[b] = "done"
           \/ stage'[b] = "extract" /\ loopAt'[b] \in 1..Len(atHeight)
    BY GoesEffect DEF TypeOK, Entry
  <1>2. ring = <<>> => ring' = <<>>
    BY <1>1
  <1>3. QED
    BY <1>1, <1>2 DEF LoopInv

\* the author is known: what is recorded of it, and the loop goes on
LEMMA NameEffect ==
    ASSUME TypeOK, LoopInv, NEW b \in Block, NEW cached, stage[b] \in {"extract", "identity"},
           NameAndCount(b, cached)
    PROVE  LET x == atHeight[loopAt[b]]
           IN  /\ x \in Block /\ Goes(b)
               /\ counted' \in [Block -> Nat]
               /\ authorName' = IF Named(Author[x], cached) THEN authorName \cup {x} ELSE authorName \ {x}
  <1> DEFINE x == atHeight[loopAt[b]]
  <1>1. loopAt[b] \in 1..Len(atHeight) /\ atHeight \in Seq(Block)
    BY DEF TypeOK, LoopInv
  <1>2. x \in Block /\ loopAt[b] + 1 \in Nat \ {0}
    BY <1>1
  <1>3. /\ counted' = [counted EXCEPT ![x] = @ + 1]
        /\ authorName' = IF Named(Author[x], cached) THEN authorName \cup {x} ELSE authorName \ {x}
        /\ EnrichFrom(b, loopAt[b] + 1)
    BY DEF NameAndCount
  <1> HIDE DEF x
  <1>4. counted' \in [Block -> Nat]
    BY <1>2, <1>3 DEF TypeOK
  <1>5. QED
    BY <1>2, <1>3, <1>4 DEF x, Goes

LEMMA InitTypes == Init => TypeOK /\ LoopInv
  <1> SUFFICES ASSUME Init
               PROVE  TypeOK /\ LoopInv
    OBVIOUS
  <1>1. LoopInv
    BY DEF Init, LoopInv
  <1>s. <<>> \in Seq(Block) /\ <<>> \in Seq([authors : Seq(Shown), cause : Cause])
    OBVIOUS
  <1>2. /\ atHeight \in Seq(Block) /\ pruned \in BOOLEAN /\ recorded \in BOOLEAN
        /\ stage \in [Block -> Stage] /\ ring \in Seq([authors : Seq(Shown), cause : Cause])
    BY <1>s DEF Init, Stage
  <1>3. /\ snapshot \in [Block -> Nat] /\ loopAt \in [Block -> Nat] /\ counted \in [Block -> Nat]
        /\ relayParent \in [Block -> Seq(Lookup)]
    BY DEF Init
  <1>4. /\ author \subseteq Block /\ authorName \subseteq author /\ prefetching \subseteq Account
        /\ identity \in [Account -> {"absent", "null", "name"}]
    BY DEF Init
  <1>5. QED
    BY <1>1, <1>2, <1>3, <1>4, Zenon DEF TypeOK

\* a block joins the height
LEMMA JoinEffect ==
    ASSUME TypeOK, LoopInv, NEW b \in Block, atHeight' = Append(atHeight, b),
           NEW s \in Stage, s \notin {"extract", "identity"}, Move(b, s),
           UNCHANGED <<snapshot, loopAt, author>>
    PROVE  /\ stage' \in [Block -> Stage] /\ atHeight' \in Seq(Block)
           /\ LoopInv'
  <1>1. /\ atHeight \in Seq(Block) /\ stage \in [Block -> Stage] /\ loopAt \in [Block -> Nat]
        /\ Len(atHeight) \in Nat /\ snapshot \in [Block -> Nat]
    BY DEF TypeOK
  <1>2. /\ atHeight' \in Seq(Block) /\ Len(atHeight') = Len(atHeight) + 1 /\ atHeight' # <<>>
        /\ \A i \in 1..Len(atHeight) : atHeight'[i] = atHeight[i]
    BY <1>1, AppendProperties
  <1>3. stage' = [stage EXCEPT ![b] = s]
    BY DEF Move
  <1>4. ASSUME NEW c \in Block
        PROVE  /\ snapshot'[c] <= Len(atHeight')
               /\ stage'[c] \in {"extract", "identity"} => loopAt'[c] \in 1..Len(atHeight')
               /\ stage'[c] = "identity" => atHeight'[loopAt'[c]] \in author'
    <2>1. snapshot'[c] <= Len(atHeight')
      BY <1>1, <1>2 DEF LoopInv
    <2>2. CASE c = b
      BY <1>1, <1>3, <2>1, <2>2
    <2>3. CASE c # b
      <3>1. stage'[c] = stage[c] /\ loopAt'[c] = loopAt[c]
        BY <1>1, <1>3, <2>3
      <3>2. stage[c] \in {"extract", "identity"} => loopAt[c] \in 1..Len(atHeight)
        BY DEF LoopInv
      <3>3. QED
        BY <1>1, <1>2, <2>1, <3>1, <3>2 DEF LoopInv
    <2>4. QED
      BY <2>2, <2>3
  <1>5. LoopInv'
    BY <1>2, <1>4 DEF LoopInv
  <1>6. QED
    BY <1>1, <1>2, <1>3, <1>5

LEMMA NextTypes == TypeOK /\ LoopInv /\ [Next]_vars => TypeOK' /\ LoopInv'
  <1> SUFFICES ASSUME TypeOK, LoopInv, [Next]_vars
               PROVE  TypeOK' /\ LoopInv'
    OBVIOUS
  <1> USE DEF blockVars, analysisVars, recordVars
  <1>t. /\ atHeight \in Seq(Block) /\ Len(atHeight) \in Nat /\ ring \in Seq(Entry)
        /\ stage \in [Block -> Stage] /\ snapshot \in [Block -> Nat]
        /\ \A c \in Block : snapshot[c] <= Len(atHeight)
    BY DEF TypeOK, LoopInv, Entry
  <1>g. ASSUME NEW b \in Block, Goes(b), UNCHANGED blockVars,
               author \subseteq author', author' \subseteq Block, authorName' \subseteq author',
               snapshot' \in [Block -> Nat], \A c \in Block : snapshot'[c] <= Len(atHeight),
               relayParent' \in [Block -> Seq(Lookup)], counted' \in [Block -> Nat],
               identity' \in [Account -> {"absent", "null", "name"}], UNCHANGED prefetching
        PROVE  TypeOK' /\ LoopInv'
    <2>1. stage' \in [Block -> Stage] /\ loopAt' \in [Block -> Nat] /\ ring' \in Seq(Entry)
      BY <1>g, GoesEffect
    <2>2. LoopInv'
      BY <1>g, GoesKeepsLoop
    <2>3. QED
      BY <1>g, <2>1, <2>2 DEF TypeOK, Entry
  <1>1. ASSUME NEW b \in Block, HeadAlone(b)
        PROVE  TypeOK' /\ LoopInv'
    <2>1. atHeight' = Append(atHeight, b) /\ Move(b, "done") /\ "done" \in Stage
      BY <1>1 DEF HeadAlone, Stage
    <2>2. stage' \in [Block -> Stage] /\ atHeight' \in Seq(Block) /\ LoopInv'
      BY <1>1, <2>1, JoinEffect DEF HeadAlone
    <2>3. QED
      BY <1>1, <2>2 DEF HeadAlone, TypeOK
  <1>2. ASSUME NEW b \in Block, HeadForkDetected(b)
        PROVE  TypeOK' /\ LoopInv'
    <2> DEFINE a == ShownAuthors(Len(atHeight), author, authorName)
               one == ShownAuthor(b, author, authorName)
               e == [authors |-> Append(a, one), cause |-> "null"]
    <2>1. Move(b, "detected") /\ "detected" \in Stage
      BY <1>2 DEF HeadForkDetected, Stage
    <2>2. stage' \in [Block -> Stage] /\ atHeight' \in Seq(Block) /\ LoopInv'
      BY <1>2, <2>1, JoinEffect DEF HeadForkDetected
    <2>3. a \in Seq(Shown) /\ one \in Shown
      BY <1>t, ShownAuthorsType, ShownType
    <2>4. ring' = Append(ring, e)
      BY <1>2 DEF HeadForkDetected
    <2>5. counted' \in [Block -> Nat]
      <3>1. counted' = [c \in Block |-> counted[c] + IF c \in author THEN 1 ELSE 0]
        BY <1>2 DEF HeadForkDetected
      <3>2. \A c \in Block : counted[c] + (IF c \in author THEN 1 ELSE 0) \in Nat
        BY DEF TypeOK
      <3>3. QED
        BY <3>1, <3>2
    <2> HIDE DEF a, one
    <2>6. e \in Entry
      BY <2>3 DEF Entry, Cause
    <2> HIDE DEF e
    <2>7. ring' \in Seq(Entry)
      BY <1>t, <2>4, <2>6
    <2>8. QED
      BY <1>2, <2>2, <2>5, <2>7 DEF HeadForkDetected, TypeOK, Entry
  <1>3. ASSUME NEW b \in Block, HeadForkUpdated(b)
        PROVE  TypeOK' /\ LoopInv'
    <2>1. Move(b, "updated") /\ "updated" \in Stage
      BY <1>3 DEF HeadForkUpdated, Stage
    <2>2. stage' \in [Block -> Stage] /\ atHeight' \in Seq(Block) /\ LoopInv'
      BY <1>3, <2>1, JoinEffect DEF HeadForkUpdated
    <2>3. QED
      BY <1>3, <2>2 DEF HeadForkUpdated, TypeOK
  <1>4. ASSUME Finalized \/ Pruned
        PROVE  TypeOK' /\ LoopInv'
    BY <1>4 DEF Finalized, Pruned, TypeOK, LoopInv
  <1>5. ASSUME NEW b \in Block, CompetingBlockInserted(b) \/ CauseSaved(b)
        PROVE  TypeOK' /\ LoopInv'
    <2>1. Goes(b) /\ UNCHANGED <<author, authorName>>
      BY <1>5, StartGoes DEF CompetingBlockInserted, CauseSaved
    <2>2. UNCHANGED <<blockVars, analysisVars, counted, identity, prefetching>>
      BY <1>5 DEF CompetingBlockInserted, CauseSaved
    <2>3. QED
      BY <1>g, <1>t, <2>1, <2>2 DEF TypeOK
  <1>6. ASSUME NEW b \in Block, StartAnalysis(b)
        PROVE  TypeOK' /\ LoopInv'
    <2>1. /\ snapshot' = [snapshot EXCEPT ![b] = Len(atHeight)] /\ stage' = [stage EXCEPT ![b] = "lookup"]
          /\ UNCHANGED <<blockVars, relayParent, loopAt, recordVars, identity, prefetching, ring>>
      BY <1>6 DEF StartAnalysis, Move
    <2>2. snapshot' \in [Block -> Nat] /\ stage' \in [Block -> Stage]
      BY <1>t, <2>1 DEF Stage
    <2>3. LoopInv'
      BY <1>t, <2>1 DEF LoopInv
    <2>4. QED
      BY <2>1, <2>2, <2>3 DEF TypeOK
  <1>7. ASSUME NEW b \in Block, RelayParentsMissing(b)
        PROVE  TypeOK' /\ LoopInv'
    <2>1. PICK found \in Answers(b) : relayParent' = [relayParent EXCEPT ![b] = found]
      BY <1>7 DEF RelayParentsMissing
    <2>2. /\ stage' = [stage EXCEPT ![b] = "retry"]
          /\ UNCHANGED <<blockVars, snapshot, loopAt, recordVars, identity, prefetching, ring>>
      BY <1>7 DEF RelayParentsMissing, Move
    <2>3. found \in Seq(Lookup)
      <3>1. snapshot[b] \in Nat
        BY <1>t
      <3>2. QED
        BY <3>1, IsSequence DEF Answers
    <2>4. relayParent' \in [Block -> Seq(Lookup)] /\ stage' \in [Block -> Stage]
      BY <1>t, <2>1, <2>2, <2>3 DEF TypeOK, Stage
    <2>5. LoopInv'
      BY <1>t, <2>2 DEF LoopInv
    <2>6. QED
      BY <2>2, <2>4, <2>5 DEF TypeOK
  <1>8. ASSUME NEW b \in Block, RelayParentsFound(b) \/ RelayParentsRetried(b)
        PROVE  TypeOK' /\ LoopInv'
    <2>1. PICK found \in Answers(b) : Conclude(b, found)
      BY <1>8 DEF RelayParentsFound, RelayParentsRetried
    <2>2. UNCHANGED <<blockVars, counted, identity, prefetching>>
      BY <1>8 DEF RelayParentsFound, RelayParentsRetried
    <2>3. /\ snapshot' \in [Block -> Nat] /\ \A c \in Block : snapshot'[c] <= Len(atHeight)
          /\ relayParent' \in [Block -> Seq(Lookup)]
          /\ \/ StartEnrichment(b)
             \/ \E e \in Entry : /\ ring' = ReplaceNewest(e)
                                 /\ e.cause = CauseOf(snapshot[b], found)
                                 /\ Move(b, "saving")
                                 /\ UNCHANGED <<author, authorName, loopAt>>
      BY <2>1, ConcludeEffect
    <2>4. CASE StartEnrichment(b)
      <3>1. Goes(b) /\ UNCHANGED <<author, authorName>>
        BY <2>4, StartGoes
      <3>2. QED
        BY <1>g, <2>2, <2>3, <3>1 DEF TypeOK
    <2>5. ASSUME NEW e \in Entry, ring' = ReplaceNewest(e), Move(b, "saving"),
                 UNCHANGED <<author, authorName, loopAt>>
          PROVE  TypeOK' /\ LoopInv'
      <3>1. ring' \in Seq(Entry) /\ Len(ring') = Len(ring)
        BY <2>5, ReplaceEffect
      <3>2. stage' = [stage EXCEPT ![b] = "saving"] /\ stage' \in [Block -> Stage]
        BY <1>t, <2>5 DEF Move, Stage
      <3>3. ring = <<>> => ring' = <<>>
        BY <1>t, <3>1
      <3>4. LoopInv'
        BY <1>t, <2>2, <2>3, <2>5, <3>2, <3>3 DEF LoopInv
      <3>5. QED
        BY <2>2, <2>3, <2>5, <3>1, <3>2, <3>4 DEF TypeOK, Entry
    <2>6. QED
      BY <2>3, <2>4, <2>5
  <1>9. ASSUME NEW b \in Block, AuthorFoundNamed(b)
        PROVE  TypeOK' /\ LoopInv'
    <2> DEFINE x == atHeight[loopAt[b]]
    <2>1. /\ stage[b] \in {"extract", "identity"} /\ NameAndCount(b, identity[Author[x]])
          /\ author' = author \cup {x} /\ UNCHANGED <<blockVars, analysisVars, identity, prefetching>>
      BY <1>9 DEF AuthorFoundNamed
    <2>2. /\ x \in Block /\ Goes(b) /\ counted' \in [Block -> Nat]
          /\ authorName' \subseteq authorName \cup {x}
      BY <2>1, NameEffect
    <2> HIDE DEF x
    <2>3. author \subseteq author' /\ author' \subseteq Block /\ authorName' \subseteq author'
      BY <2>1, <2>2 DEF TypeOK
    <2>4. QED
      BY <1>g, <1>t, <2>1, <2>2, <2>3 DEF TypeOK
  <1>10. ASSUME NEW b \in Block, AuthorFound(b)
         PROVE  TypeOK' /\ LoopInv'
    <2> DEFINE x == atHeight[loopAt[b]]
    <2>1. /\ stage' = [stage EXCEPT ![b] = "identity"] /\ stage[b] = "extract"
          /\ author' = author \cup {x}
          /\ UNCHANGED <<blockVars, analysisVars, loopAt, authorName, counted,
                         identity, prefetching, ring>>
      BY <1>10 DEF AuthorFound, Move
    <2>2. loopAt[b] \in 1..Len(atHeight)
      BY <2>1 DEF LoopInv
    <2>3. x \in Block /\ stage' \in [Block -> Stage]
      BY <1>t, <2>1, <2>2 DEF Stage
    <2>4. LoopInv'
      BY <1>t, <2>1, <2>2 DEF LoopInv
    <2>5. QED
      BY <2>1, <2>3, <2>4 DEF TypeOK
  <1>11. ASSUME NEW b \in Block, AuthorUnknown(b)
         PROVE  TypeOK' /\ LoopInv'
    <2>1. /\ stage[b] = "extract" /\ EnrichFrom(b, loopAt[b] + 1)
          /\ UNCHANGED <<author, authorName, blockVars, analysisVars, counted, identity, prefetching>>
      BY <1>11 DEF AuthorUnknown
    <2>2. loopAt[b] + 1 \in Nat \ {0}
      BY <1>t, <2>1 DEF LoopInv
    <2>3. Goes(b)
      BY <2>1, <2>2 DEF Goes
    <2>4. QED
      BY <1>g, <1>t, <2>1, <2>3 DEF TypeOK
  <1>12. ASSUME NEW b \in Block, IdentityFetched(b)
         PROVE  TypeOK' /\ LoopInv'
    <2> DEFINE a == Author[atHeight[loopAt[b]]]
    <2>1. PICK answer \in FetchedIdentity(a) : /\ identity' = [identity EXCEPT ![a] = answer]
                                               /\ NameAndCount(b, answer)
      BY <1>12 DEF IdentityFetched
    <2>2. stage[b] = "identity" /\ UNCHANGED <<author, blockVars, analysisVars, prefetching>>
      BY <1>12 DEF IdentityFetched
    <2>3. answer \in {"name", "null"}
      BY DEF FetchedIdentity
    <2>4. identity' \in [Account -> {"absent", "null", "name"}]
      BY <2>1, <2>3 DEF TypeOK
    <2>5. /\ Goes(b) /\ counted' \in [Block -> Nat]
          /\ authorName' \subseteq authorName \cup {atHeight[loopAt[b]]}
      BY <2>1, <2>2, NameEffect
    <2>6. atHeight[loopAt[b]] \in author
      BY <2>2 DEF LoopInv
    <2>7. QED
      BY <1>g, <1>t, <2>2, <2>4, <2>5, <2>6 DEF TypeOK
  <1>13. ASSUME NEW a \in Account, PrefetchIdentity(a)
         PROVE  TypeOK' /\ LoopInv'
    BY <1>13 DEF PrefetchIdentity, TypeOK, LoopInv
  <1>14. ASSUME NEW a \in Account, PrefetchedIdentity(a)
         PROVE  TypeOK' /\ LoopInv'
    <2>1. PICK answer \in FetchedIdentity(a) : identity' = [identity EXCEPT ![a] = answer]
      BY <1>14 DEF PrefetchedIdentity
    <2>2. identity' \in [Account -> {"absent", "null", "name"}]
      BY <2>1 DEF FetchedIdentity, TypeOK
    <2>3. QED
      BY <1>14, <2>2 DEF PrefetchedIdentity, TypeOK, LoopInv
  <1>15. CASE UNCHANGED vars
    BY <1>15 DEF vars, TypeOK, LoopInv
  <1>16. QED
    BY <1>1, <1>2, <1>3, <1>4, <1>5, <1>6, <1>7, <1>8, <1>9, <1>10, <1>11, <1>12, <1>13,
       <1>14, <1>15 DEF Next, Callback

\* Every variable keeps its type.
THEOREM AttributionTypes == Spec => []TypeOK
  BY InitTypes, NextTypes, PTL DEF Spec

-----------------------------------------------------------------------------
(* The authors of the entry settle *)

\* While a callback is under way nothing is promised.
LEMMA BusySettles ==
    ASSUME NEW b \in Block, stage'[b] \notin {"none", "done"}
    PROVE  AuthorsSettle'
  BY DEF AuthorsSettle, Settled

\* The last callback to end writes the authors as they are known then.
LEMMA GoesSettles ==
    ASSUME TypeOK, NEW b \in Block, Goes(b), UNCHANGED blockVars
    PROVE  AuthorsSettle'
  <1> USE DEF blockVars
  <1>1. /\ ring \in Seq(Entry) /\ ring' \in Seq(Entry) /\ Len(ring') = Len(ring)
        /\ \/ /\ stage'[b] = "done"
              /\ ~pruned /\ ring # <<>> =>
                   ring'[Len(ring')].authors = ShownAuthors(Len(atHeight), author', authorName')
           \/ stage'[b] = "extract" /\ loopAt'[b] \in 1..Len(atHeight)
    BY GoesEffect DEF TypeOK, Entry
  <1>2. CASE stage'[b] = "extract"
    BY <1>2, BusySettles
  <1>3. CASE /\ stage'[b] = "done"
             /\ ~pruned /\ ring # <<>> =>
                  ring'[Len(ring')].authors = ShownAuthors(Len(atHeight), author', authorName')
    <2>1. ring' # <<>> => ring # <<>>
      BY <1>1
    <2>2. ShownAuthors(Len(atHeight), author', authorName') = ShownAuthors(Len(atHeight), author, authorName)'
      BY DEF ShownAuthors
    <2>3. QED
      BY <1>3, <2>1, <2>2 DEF AuthorsSettle
  <1>4. QED
    BY <1>1, <1>2, <1>3

\* A callback that only moves to a stage of waiting
LEMMA WaitSettles ==
    ASSUME TypeOK, NEW b \in Block, NEW s \in Stage \ {"none", "done"}, Move(b, s)
    PROVE  AuthorsSettle'
  <1>1. stage'[b] = s
    BY DEF Move, TypeOK
  <1>2. QED
    BY <1>1, BusySettles

LEMMA NextSettles == TypeOK /\ LoopInv /\ AuthorsSettle /\ [Next]_vars => AuthorsSettle'
  <1> SUFFICES ASSUME TypeOK, LoopInv, AuthorsSettle, [Next]_vars
               PROVE  AuthorsSettle'
    OBVIOUS
  <1> USE DEF blockVars, analysisVars, recordVars
  <1>s. {"detected", "updated", "lookup", "retry", "saving", "identity"} \subseteq Stage \ {"none", "done"}
    BY DEF Stage
  <1>0. UNCHANGED <<blockVars, stage, author, authorName, ring>> => AuthorsSettle'
    BY DEF AuthorsSettle, Settled, ShownAuthors, ShownAuthor
  <1>1. ASSUME NEW b \in Block, HeadAlone(b)
        PROVE  AuthorsSettle'
    BY <1>1 DEF HeadAlone, LoopInv, AuthorsSettle
  <1>2. ASSUME NEW b \in Block, \/ HeadForkDetected(b) \/ HeadForkUpdated(b) \/ StartAnalysis(b)
                                \/ RelayParentsMissing(b) \/ AuthorFound(b)
        PROVE  AuthorsSettle'
    <2>1. \E s \in Stage \ {"none", "done"} : Move(b, s)
      BY <1>2, <1>s DEF HeadForkDetected, HeadForkUpdated, StartAnalysis, RelayParentsMissing, AuthorFound
    <2>2. QED
      BY <2>1, WaitSettles
  <1>3. ASSUME Finalized
        PROVE  AuthorsSettle'
    BY <1>3 DEF Finalized, AuthorsSettle, Settled, ShownAuthors, ShownAuthor
  <1>4. ASSUME Pruned
        PROVE  AuthorsSettle'
    BY <1>4 DEF Pruned, AuthorsSettle
  <1>5. ASSUME NEW b \in Block, CompetingBlockInserted(b) \/ CauseSaved(b)
        PROVE  AuthorsSettle'
    <2>1. Goes(b) /\ UNCHANGED blockVars
      BY <1>5, StartGoes DEF CompetingBlockInserted, CauseSaved
    <2>2. QED
      BY <2>1, GoesSettles
  <1>6. ASSUME NEW b \in Block, RelayParentsFound(b) \/ RelayParentsRetried(b)
        PROVE  AuthorsSettle'
    <2>1. PICK found \in Answers(b) : Conclude(b, found)
      BY <1>6 DEF RelayParentsFound, RelayParentsRetried
    <2>2. UNCHANGED blockVars
      BY <1>6 DEF RelayParentsFound, RelayParentsRetried
    <2>3. StartEnrichment(b) \/ Move(b, "saving")
      BY <2>1, ConcludeEffect
    <2>4. CASE StartEnrichment(b)
      BY <2>2, <2>4, StartGoes, GoesSettles
    <2>5. CASE Move(b, "saving")
      BY <1>s, <2>5, WaitSettles
    <2>6. QED
      BY <2>3, <2>4, <2>5
  <1>7. ASSUME NEW b \in Block, AuthorFoundNamed(b) \/ IdentityFetched(b) \/ AuthorUnknown(b)
        PROVE  AuthorsSettle'
    <2>1. UNCHANGED blockVars /\ stage[b] \in {"extract", "identity"}
      BY <1>7 DEF AuthorFoundNamed, IdentityFetched, AuthorUnknown
    <2>2. Goes(b)
      <3>1. CASE \E cached : NameAndCount(b, cached)
        BY <2>1, <3>1, NameEffect
      <3>2. CASE EnrichFrom(b, loopAt[b] + 1)
        <4>1. loopAt[b] \in Nat
          BY DEF TypeOK
        <4>2. loopAt[b] + 1 \in Nat \ {0}
          BY <4>1
        <4>3. QED
          BY <3>2, <4>2 DEF Goes
      <3>3. QED
        BY <1>7, <3>1, <3>2 DEF AuthorFoundNamed, IdentityFetched, AuthorUnknown
    <2>3. QED
      BY <2>1, <2>2, GoesSettles
  <1>8. ASSUME NEW a \in Account, PrefetchIdentity(a) \/ PrefetchedIdentity(a)
        PROVE  AuthorsSettle'
    BY <1>0, <1>8 DEF PrefetchIdentity, PrefetchedIdentity
  <1>9. CASE UNCHANGED vars
    BY <1>0, <1>9 DEF vars
  <1>10. QED
    BY <1>1, <1>2, <1>3, <1>4, <1>5, <1>6, <1>7, <1>8, <1>9 DEF Next, Callback

\* Whoever writes last, the newest entry ends up with the authors of all blocks
\* of the height, as well as they are known.
THEOREM AuthorsAlwaysSettle == Spec => []AuthorsSettle
  <1>1. Init => AuthorsSettle
    BY DEF Init, AuthorsSettle
  <1>2. QED
    BY <1>1, InitTypes, NextTypes, NextSettles, PTL DEF Spec

-----------------------------------------------------------------------------
(* Names *)

\* some callback fetches the identity of the author of x
Pending(x) == \E b \in Block : stage[b] = "identity" /\ atHeight[loopAt[b]] = x

\* The cache never says that an account with a name has none, and a block
\* without the name of its author is about to get it.
NameInv ==
    ~LookupFails =>
        /\ \A a \in HasName : identity[a] # "null"
        /\ \A x \in author :
              Author[x] \in HasName \cup KnownAuthor /\ x \notin authorName => Pending(x)

\* a callback that is not fetching an identity moves
LEMMA OtherKeepsNames ==
    ASSUME TypeOK, LoopInv, NameInv, NEW b \in Block, stage[b] # "identity",
           \A c \in Block : c # b => stage'[c] = stage[c] /\ loopAt'[c] = loopAt[c],
           \A i \in 1..Len(atHeight) : atHeight'[i] = atHeight[i],
           UNCHANGED <<author, authorName, identity>>
    PROVE  NameInv'
  <1>1. ASSUME NEW x, Pending(x)
        PROVE  Pending(x)'
    <2>1. PICK c \in Block : stage[c] = "identity" /\ atHeight[loopAt[c]] = x
      BY <1>1 DEF Pending
    <2>2. c # b /\ loopAt[c] \in 1..Len(atHeight)
      BY <2>1 DEF LoopInv
    <2>3. stage'[c] = "identity" /\ atHeight'[loopAt'[c]] = x
      BY <2>1, <2>2
    <2>4. QED
      BY <2>3 DEF Pending
  <1>2. QED
    BY <1>1 DEF NameInv

\* the author of a block is known and its name resolved
LEMMA NamingKeepsNames ==
    ASSUME TypeOK, LoopInv, NameInv, NEW b \in Block, NEW cached, NEW x \in Block,
           x = atHeight[loopAt[b]], Goes(b), UNCHANGED atHeight,
           author' = author \cup {x},
           authorName' = IF Named(Author[x], cached) THEN authorName \cup {x} ELSE authorName \ {x},
           ~LookupFails => /\ \A a \in HasName : identity'[a] # "null"
                           /\ Author[x] \in HasName => cached = "name"
    PROVE  NameInv'
  <1>1. \A c \in Block : c # b => stage'[c] = stage[c] /\ loopAt'[c] = loopAt[c]
    BY GoesEffect
  <1>2. ASSUME ~LookupFails, NEW y \in author', Author[y] \in HasName \cup KnownAuthor,
               y \notin authorName'
        PROVE  Pending(y)'
    <2>1. y # x
      BY <1>2 DEF Named
    <2>2. Pending(y)
      BY <1>2, <2>1 DEF NameInv
    <2>3. PICK c \in Block : stage[c] = "identity" /\ atHeight[loopAt[c]] = y
      BY <2>2 DEF Pending
    <2>4. c # b
      BY <2>1, <2>3
    <2>5. QED
      BY <1>1, <2>3, <2>4 DEF Pending
  <1>3. QED
    BY <1>2 DEF NameInv

LEMMA NextNames == TypeOK /\ LoopInv /\ NameInv /\ [Next]_vars => NameInv'
  <1> SUFFICES ASSUME TypeOK, LoopInv, NameInv, [Next]_vars
               PROVE  NameInv'
    OBVIOUS
  <1> USE DEF blockVars, analysisVars, recordVars
  <1>t. stage \in [Block -> Stage] /\ atHeight \in Seq(Block)
    BY DEF TypeOK
  <1>1. ASSUME NEW b \in Block, HeadAlone(b) \/ HeadForkDetected(b) \/ HeadForkUpdated(b)
        PROVE  NameInv'
    <2>1. PICK s \in Stage : Move(b, s)
      BY <1>1 DEF HeadAlone, HeadForkDetected, HeadForkUpdated, Stage
    <2>2. \A i \in 1..Len(atHeight) : atHeight'[i] = atHeight[i]
      <3>1. CASE atHeight = <<>>
        BY <3>1
      <3>2. CASE atHeight' = Append(atHeight, b)
        BY <1>t, <3>2, AppendProperties
      <3>3. QED
        BY <1>1, <3>1, <3>2 DEF HeadAlone, HeadForkDetected, HeadForkUpdated
    <2>3. stage[b] = "none" /\ UNCHANGED <<author, authorName, identity, loopAt>>
      BY <1>1 DEF HeadAlone, HeadForkDetected, HeadForkUpdated
    <2>4. \A c \in Block : c # b => stage'[c] = stage[c]
      BY <1>t, <2>1 DEF Move
    <2>5. QED
      BY <2>2, <2>3, <2>4, OtherKeepsNames
  <1>2. ASSUME NEW b \in Block, StartAnalysis(b) \/ RelayParentsMissing(b)
        PROVE  NameInv'
    <2>1. stage[b] # "identity" /\ UNCHANGED <<atHeight, author, authorName, identity, loopAt>>
      BY <1>2 DEF StartAnalysis, RelayParentsMissing
    <2>2. \A c \in Block : c # b => stage'[c] = stage[c]
      BY <1>2, <1>t DEF StartAnalysis, RelayParentsMissing, Move
    <2>3. QED
      BY <2>1, <2>2, OtherKeepsNames
  <1>3. ASSUME NEW b \in Block, CompetingBlockInserted(b) \/ CauseSaved(b) \/ AuthorUnknown(b)
        PROVE  NameInv'
    <2>1. Goes(b) /\ UNCHANGED <<author, authorName>>
      <3>1. CASE StartEnrichment(b)
        BY <3>1, StartGoes
      <3>2. CASE AuthorUnknown(b)
        <4>1. loopAt[b] \in Nat
          BY DEF TypeOK
        <4>2. loopAt[b] + 1 \in Nat \ {0}
          BY <4>1
        <4>3. QED
          BY <3>2, <4>2 DEF AuthorUnknown, Goes
      <3>3. QED
        BY <1>3, <3>1, <3>2 DEF CompetingBlockInserted, CauseSaved
    <2>2. stage[b] # "identity" /\ UNCHANGED <<atHeight, identity>>
      BY <1>3 DEF CompetingBlockInserted, CauseSaved, AuthorUnknown
    <2>3. QED
      BY <2>1, <2>2, GoesEffect, OtherKeepsNames
  <1>4. ASSUME NEW b \in Block, RelayParentsFound(b) \/ RelayParentsRetried(b)
        PROVE  NameInv'
    <2>1. PICK found \in Answers(b) : Conclude(b, found)
      BY <1>4 DEF RelayParentsFound, RelayParentsRetried
    <2>2. stage[b] # "identity" /\ UNCHANGED <<atHeight, identity>>
      BY <1>4 DEF RelayParentsFound, RelayParentsRetried
    <2>3. \/ StartEnrichment(b)
          \/ Move(b, "saving") /\ UNCHANGED <<author, authorName, loopAt>>
      BY <2>1, ConcludeEffect
    <2>4. UNCHANGED <<author, authorName>>
      BY <2>3, StartGoes
    <2>5. \A c \in Block : c # b => stage'[c] = stage[c] /\ loopAt'[c] = loopAt[c]
      <3>1. CASE StartEnrichment(b)
        BY <3>1, StartGoes, GoesEffect
      <3>2. CASE Move(b, "saving") /\ UNCHANGED loopAt
        BY <1>t, <3>2 DEF Move
      <3>3. QED
        BY <2>3, <3>1, <3>2
    <2>6. QED
      BY <2>2, <2>4, <2>5, OtherKeepsNames
  <1>5. ASSUME NEW b \in Block, AuthorFound(b)
        PROVE  NameInv'
    <2> DEFINE x == atHeight[loopAt[b]]
    <2>1. /\ stage' = [stage EXCEPT ![b] = "identity"] /\ stage[b] = "extract"
          /\ author' = author \cup {x}
          /\ UNCHANGED <<atHeight, loopAt, authorName, identity>>
      BY <1>5 DEF AuthorFound, Move
    <2>2. stage'[b] = "identity" /\ \A c \in Block : c # b => stage'[c] = stage[c]
      BY <1>t, <2>1
    <2>3. \A y : y = x => Pending(y)'
      BY <2>1, <2>2 DEF Pending
    <2>4. \A y : Pending(y) => Pending(y)'
      BY <2>1, <2>2 DEF Pending
    <2> HIDE DEF x
    <2>5. ASSUME ~LookupFails, NEW y \in author', Author[y] \in HasName \cup KnownAuthor,
                 y \notin authorName'
          PROVE  Pending(y)'
      <3>1. CASE y = x
        BY <2>3, <3>1
      <3>2. CASE y # x
        <4>1. y \in author /\ y \notin authorName
          BY <2>1, <2>5, <3>2
        <4>2. QED
          BY <2>4, <2>5, <4>1 DEF NameInv
      <3>3. QED
        BY <3>1, <3>2
    <2>6. QED
      BY <2>1, <2>5 DEF NameInv
  <1>6. ASSUME NEW b \in Block, AuthorFoundNamed(b)
        PROVE  NameInv'
    <2> DEFINE x == atHeight[loopAt[b]]
               cached == identity[Author[x]]
    <2>1. /\ stage[b] \in {"extract", "identity"} /\ NameAndCount(b, cached)
          /\ Author[x] \in KnownAuthor \/ cached # "absent"
          /\ author' = author \cup {x} /\ UNCHANGED <<atHeight, identity>>
      BY <1>6 DEF AuthorFoundNamed
    <2>2. /\ x \in Block /\ Goes(b)
          /\ authorName' = IF Named(Author[x], cached) THEN authorName \cup {x} ELSE authorName \ {x}
      BY <2>1, NameEffect
    <2>x. x = atHeight[loopAt[b]] /\ cached = identity[Author[x]]
      OBVIOUS
    <2> HIDE DEF x, cached
    <2>3. Author[x] \in Account
      BY <2>2, AttributionAssumption
    <2>4. cached \in {"absent", "null", "name"}
      BY <2>x, <2>3 DEF TypeOK
    <2>5. CASE Author[x] \in KnownAuthor
      <3> DEFINE known == IF Author[x] \in HasName THEN "name" ELSE cached
      <3>1. authorName' = IF Named(Author[x], known) THEN authorName \cup {x} ELSE authorName \ {x}
        BY <2>2, <2>5 DEF Named
      <3>2. ~LookupFails => /\ \A a \in HasName : identity'[a] # "null"
                            /\ Author[x] \in HasName => known = "name"
        BY <2>1 DEF NameInv
      <3> HIDE DEF known
      <3>3. QED
        BY <2>1, <2>2, <2>x, <3>1, <3>2, NamingKeepsNames
    <2>6. CASE cached # "absent"
      <3>1. ~LookupFails => /\ \A a \in HasName : identity'[a] # "null"
                            /\ Author[x] \in HasName => cached = "name"
        BY <2>1, <2>4, <2>6, <2>x DEF NameInv
      <3>2. QED
        BY <2>1, <2>2, <2>x, <3>1, NamingKeepsNames
    <2>7. QED
      BY <2>1, <2>5, <2>6
  <1>7. ASSUME NEW b \in Block, IdentityFetched(b)
        PROVE  NameInv'
    <2> DEFINE x == atHeight[loopAt[b]]
    <2>1. PICK answer \in FetchedIdentity(Author[x]) :
             identity' = [identity EXCEPT ![Author[x]] = answer] /\ NameAndCount(b, answer)
      BY <1>7 DEF IdentityFetched
    <2>2. stage[b] = "identity" /\ UNCHANGED <<author, atHeight>>
      BY <1>7 DEF IdentityFetched
    <2>3. /\ x \in Block /\ Goes(b)
          /\ authorName' = IF Named(Author[x], answer) THEN authorName \cup {x} ELSE authorName \ {x}
      BY <2>1, <2>2, NameEffect
    <2>4. x \in author
      BY <2>2 DEF LoopInv
    <2>x. x = atHeight[loopAt[b]]
      OBVIOUS
    <2> HIDE DEF x
    <2>5. ~LookupFails => /\ \A a \in HasName : identity'[a] # "null"
                          /\ Author[x] \in HasName => answer = "name"
      BY <2>1, AttributionAssumption DEF FetchedIdentity, NameInv, TypeOK
    <2>6. author' = author \cup {x}
      BY <2>2, <2>4
    <2>7. QED
      BY <2>2, <2>3, <2>5, <2>6, <2>x, NamingKeepsNames
  <1>8. ASSUME Finalized \/ Pruned \/ (\E a \in Account : PrefetchIdentity(a)) \/ UNCHANGED vars
        PROVE  NameInv'
    BY <1>8 DEF Finalized, Pruned, PrefetchIdentity, vars, NameInv, Pending
  <1>9. ASSUME NEW a \in Account, PrefetchedIdentity(a)
        PROVE  NameInv'
    <2>1. PICK answer \in FetchedIdentity(a) : identity' = [identity EXCEPT ![a] = answer]
      BY <1>9 DEF PrefetchedIdentity
    <2>2. UNCHANGED <<stage, atHeight, loopAt, author, authorName>>
      BY <1>9 DEF PrefetchedIdentity
    <2>3. ~LookupFails => \A c \in HasName : identity'[c] # "null"
      BY <2>1, AttributionAssumption DEF FetchedIdentity, NameInv, TypeOK
    <2>4. QED
      BY <2>2, <2>3 DEF NameInv, Pending
  <1>10. QED
    BY <1>1, <1>2, <1>3, <1>4, <1>5, <1>6, <1>7, <1>8, <1>9 DEF Next, Callback

\* When the callbacks are over and no lookup failed, no account that has a name
\* is shown by its bare address.
THEOREM NamesAlwaysShown == Spec => []NamesShown
  <1>1. Init => NameInv
    BY AttributionAssumption DEF Init, NameInv
  <1>2. NameInv => NamesShown
    BY DEF NameInv, NamesShown, Settled, Pending
  <1>3. QED
    BY <1>1, <1>2, InitTypes, NextTypes, NextNames, PTL DEF Spec

-----------------------------------------------------------------------------
(* Relay forks *)

LEMMA SameMeansEqual ==
    ASSUME NEW S, IsFiniteSet(S)
    PROVE  Same(S) <=> \A x, y \in S : x = y
  <1>1. Cardinality(S) \in Nat
    BY FS_CardinalityType
  <1>2. Cardinality(S) = 0 <=> S = {}
    BY FS_EmptySet
  <1>3. Cardinality(S) = 1 <=> \E x : S = {x}
    BY FS_Singleton
  <1>4. Same(S) <=> Cardinality(S) = 0 \/ Cardinality(S) = 1
    BY <1>1 DEF Same
  <1>5. (\A x, y \in S : x = y) <=> S = {} \/ \E x : S = {x}
    OBVIOUS
  <1>6. QED
    BY <1>2, <1>3, <1>4, <1>5

\* what the relay parents found say about the first k blocks
LEMMA FoundIsFinite ==
    ASSUME NEW k \in Nat, NEW J, J \subseteq 1..k, NEW of
    PROVE  IsFiniteSet({of[x] : x \in {atHeight[i] : i \in J}})
  <1> DEFINE S == {of[x] : x \in {atHeight[i] : i \in J}}
             f == [j \in J |-> of[atHeight[j]]]
  <1>1. IsFiniteSet(1..k)
    BY FS_Interval
  <1>2. IsFiniteSet(J)
    BY <1>1, FS_Subset
  <1>3. f \in Surjection(J, S)
    BY DEF Surjection
  <1> HIDE DEF S, f
  <1>4. IsFiniteSet(S)
    BY <1>2, <1>3, FS_Surjection
  <1>5. QED
    BY <1>4 DEF S

\* Two blocks of the height have different relay roots and either one relay number
\* or one of them shows none.
RelayForked ==
    \E j, k \in DOMAIN atHeight :
        /\ RelayRoot[atHeight[j]] # RelayRoot[atHeight[k]]
        /\ \/ RelayNumber[atHeight[j]] = RelayNumber[atHeight[k]]
           \/ {atHeight[j], atHeight[k]} \cap RootOnly # {}

LEMMA VerdictIsReal ==
    ASSUME TypeOK, LoopInv, NEW b \in Block, NEW found \in Answers(b),
           CauseOf(snapshot[b], found) \in {"relay_fork", "relay_fork_same_author"}
    PROVE  RelayForked
  <1> DEFINE n == snapshot[b]
             J == {j \in 1..n : found[j] \in {"full", "number"}}
             K == {j \in 1..n : found[j] \in {"full", "root"}}
             numbers == {RelayNumber[x] : x \in {atHeight[i] : i \in J}}
             roots == {RelayRoot[x] : x \in {atHeight[i] : i \in K}}
  <1>1. n \in Nat /\ Len(atHeight) \in Nat /\ n <= Len(atHeight) /\ DOMAIN atHeight = 1..Len(atHeight)
    BY DEF TypeOK, LoopInv
  <1>2. /\ J \subseteq 1..n /\ K \subseteq 1..n
        /\ \A j \in K : j \in J \/ atHeight[j] \in RootOnly
    BY DEF Answers
  <1>3. Same(numbers) /\ ~Same(roots)
    BY DEF CauseOf, Verdict
  <1> HIDE DEF n, J, K
  <1>4. IsFiniteSet(numbers) /\ IsFiniteSet(roots)
    <2>1. n \in Nat /\ J \subseteq 1..n /\ K \subseteq 1..n
      BY <1>1, <1>2
    <2>2. IsFiniteSet(numbers)
      BY <2>1, FoundIsFinite, Zenon
    <2>3. IsFiniteSet(roots)
      BY <2>1, FoundIsFinite, Zenon
    <2>4. QED
      BY <2>2, <2>3
  <1>5. PICK r, s \in roots : r # s
    BY <1>3, <1>4, SameMeansEqual
  <1>6. PICK j, k \in K : r = RelayRoot[atHeight[j]] /\ s = RelayRoot[atHeight[k]]
    BY <1>5
  <1>7. ASSUME {atHeight[j], atHeight[k]} \cap RootOnly = {}
        PROVE  RelayNumber[atHeight[j]] = RelayNumber[atHeight[k]]
    <2>0. j \in J /\ k \in J
      BY <1>2, <1>6, <1>7
    <2>1. RelayNumber[atHeight[j]] \in numbers /\ RelayNumber[atHeight[k]] \in numbers
      BY <2>0
    <2>2. QED
      BY <1>3, <1>4, <2>1, SameMeansEqual
  <1>8. j \in DOMAIN atHeight /\ k \in DOMAIN atHeight
    BY <1>1, <1>2, <1>6
  <1>9. QED
    BY <1>5, <1>6, <1>7, <1>8 DEF RelayForked

\* causes that stay the same stay true
LEMMA CausesKept ==
    ASSUME TypeOK, RelayForkIsReal, UNCHANGED atHeight, ring' \in Seq(Entry), Len(ring') = Len(ring),
           \A i \in 1..Len(ring) : ring'[i].cause = ring[i].cause
    PROVE  RelayForkIsReal'
  <1>1. DOMAIN ring' = 1..Len(ring) /\ DOMAIN ring = 1..Len(ring)
    BY DEF TypeOK
  <1>2. QED
    BY <1>1 DEF RelayForkIsReal

LEMMA NextRelayForks == TypeOK /\ LoopInv /\ RelayForkIsReal /\ [Next]_vars => RelayForkIsReal'
  <1> SUFFICES ASSUME TypeOK, LoopInv, RelayForkIsReal, [Next]_vars
               PROVE  RelayForkIsReal'
    OBVIOUS
  <1> USE DEF blockVars, analysisVars, recordVars
  <1>t. /\ ring \in Seq(Entry) /\ atHeight \in Seq(Block) /\ Len(atHeight) \in Nat
        /\ DOMAIN ring = 1..Len(ring) /\ DOMAIN atHeight = 1..Len(atHeight)
    BY DEF TypeOK, Entry
  <1>0. UNCHANGED <<atHeight, ring>> => RelayForkIsReal'
    BY DEF RelayForkIsReal
  <1>g. ASSUME NEW b \in Block, Goes(b), UNCHANGED atHeight
        PROVE  RelayForkIsReal'
    BY <1>g, GoesEffect, CausesKept
  <1>1. ASSUME NEW b \in Block, HeadAlone(b) \/ HeadForkDetected(b) \/ HeadForkUpdated(b)
        PROVE  RelayForkIsReal'
    <2>1. /\ Len(atHeight) <= Len(atHeight') /\ DOMAIN atHeight' = 1..Len(atHeight') /\ Len(atHeight') \in Nat
          /\ \A i \in 1..Len(atHeight) : atHeight'[i] = atHeight[i]
      <3>1. CASE atHeight = <<>> /\ atHeight' = <<b>>
        BY <3>1
      <3>2. CASE atHeight' = Append(atHeight, b)
        BY <1>t, <3>2, AppendProperties
      <3>3. QED
        BY <1>1, <3>1, <3>2 DEF HeadAlone, HeadForkDetected, HeadForkUpdated
    <2>2. RelayForked => RelayForked'
      BY <1>t, <2>1 DEF RelayForked
    <2>3. ASSUME NEW i \in DOMAIN ring', ring'[i].cause \in {"relay_fork", "relay_fork_same_author"}
          PROVE  RelayForked
      <3>1. i \in DOMAIN ring /\ ring'[i] = ring[i]
        <4>1. CASE UNCHANGED ring
          BY <2>3, <4>1
        <4>2. CASE HeadForkDetected(b)
          <5> DEFINE e == [authors |-> Append(ShownAuthors(Len(atHeight), author, authorName),
                                              ShownAuthor(b, author, authorName)),
                           cause |-> "null"]
          <5>1. ring' = Append(ring, e)
            BY <4>2 DEF HeadForkDetected
          <5>2. e.cause = "null"
            OBVIOUS
          <5> HIDE DEF e
          <5>3. \/ i \in 1..Len(ring) /\ ring'[i] = ring[i]
                \/ ring'[i] = e
            BY <1>t, <2>3, <5>1
          <5>4. QED
            BY <1>t, <2>3, <5>2, <5>3
        <4>3. QED
          BY <1>1, <4>1, <4>2 DEF HeadAlone, HeadForkUpdated
      <3>2. QED
        BY <2>3, <3>1 DEF RelayForkIsReal, RelayForked
    <2>4. QED
      BY <2>2, <2>3 DEF RelayForkIsReal, RelayForked
  <1>2. ASSUME NEW b \in Block, RelayParentsFound(b) \/ RelayParentsRetried(b)
        PROVE  RelayForkIsReal'
    <2>1. PICK found \in Answers(b) : Conclude(b, found)
      BY <1>2 DEF RelayParentsFound, RelayParentsRetried
    <2>2. UNCHANGED atHeight
      BY <1>2 DEF RelayParentsFound, RelayParentsRetried
    <2>3. CASE StartEnrichment(b)
      BY <1>g, <2>2, <2>3, StartGoes
    <2>4. ASSUME NEW e \in Entry, ring' = ReplaceNewest(e), e.cause = CauseOf(snapshot[b], found)
          PROVE  RelayForkIsReal'
      <3>1. /\ ring' \in Seq(Entry) /\ Len(ring') = Len(ring)
            /\ \A i \in 1..Len(ring) : ring'[i] = ring[i] \/ ring'[i] = e
        BY <2>4, ReplaceEffect
      <3>2. DOMAIN ring' = 1..Len(ring)
        BY <3>1
      <3>3. ASSUME NEW i \in DOMAIN ring', ring'[i].cause \in {"relay_fork", "relay_fork_same_author"}
            PROVE  RelayForked
        <4>1. CASE ring'[i] = ring[i]
          BY <1>t, <3>2, <3>3, <4>1 DEF RelayForkIsReal, RelayForked
        <4>2. CASE ring'[i] = e
          BY <2>4, <3>3, <4>2, VerdictIsReal
        <4>3. QED
          BY <3>1, <3>2, <4>1, <4>2
      <3>4. QED
        BY <2>2, <3>3 DEF RelayForkIsReal, RelayForked
    <2>5. QED
      BY <2>1, <2>3, <2>4, ConcludeEffect
  <1>3. ASSUME NEW b \in Block, \/ CompetingBlockInserted(b) \/ CauseSaved(b) \/ AuthorUnknown(b)
                                \/ AuthorFoundNamed(b) \/ IdentityFetched(b)
        PROVE  RelayForkIsReal'
    <2>1. UNCHANGED atHeight
      BY <1>3 DEF CompetingBlockInserted, CauseSaved, AuthorUnknown, AuthorFoundNamed, IdentityFetched
    <2>2. Goes(b)
      <3>1. CASE StartEnrichment(b)
        BY <3>1, StartGoes
      <3>2. CASE AuthorUnknown(b)
        <4>1. loopAt[b] \in Nat
          BY DEF TypeOK
        <4>2. loopAt[b] + 1 \in Nat \ {0}
          BY <4>1
        <4>3. QED
          BY <3>2, <4>2 DEF AuthorUnknown, Goes
      <3>3. CASE stage[b] \in {"extract", "identity"} /\ \E cached : NameAndCount(b, cached)
        BY <3>3, NameEffect
      <3>4. QED
        BY <1>3, <3>1, <3>2, <3>3
           DEF CompetingBlockInserted, CauseSaved, AuthorFoundNamed, IdentityFetched
    <2>3. QED
      BY <1>g, <2>1, <2>2
  <1>4. ASSUME NEW b \in Block, StartAnalysis(b) \/ RelayParentsMissing(b) \/ AuthorFound(b)
        PROVE  RelayForkIsReal'
    BY <1>0, <1>4 DEF StartAnalysis, RelayParentsMissing, AuthorFound
  <1>5. ASSUME \/ Finalized \/ Pruned \/ UNCHANGED vars
               \/ \E a \in Account : PrefetchIdentity(a) \/ PrefetchedIdentity(a)
        PROVE  RelayForkIsReal'
    BY <1>0, <1>5 DEF Finalized, Pruned, PrefetchIdentity, PrefetchedIdentity, vars
  <1>6. QED
    BY <1>1, <1>2, <1>3, <1>4, <1>5 DEF Next, Callback

\* A relay fork is never reported unless two blocks of the height have different
\* relay roots and either one relay number or one of them shows none, whatever
\* the blocks, the answers and their order.
THEOREM RelayForksAreReal == Spec => []RelayForkIsReal
  <1>1. Init => RelayForkIsReal
    BY DEF Init, RelayForkIsReal
  <1>2. QED
    BY <1>1, InitTypes, NextTypes, NextRelayForks, PTL DEF Spec

-----------------------------------------------------------------------------
(* Counting the blocks of an author *)

\* the callbacks that enrich the height: those of all its blocks but the first
Callbacks == {atHeight[i] : i \in 2..Len(atHeight)}

\* the loop of b has reached c
At(b, c) == stage[b] \in {"extract", "identity"} /\ atHeight[loopAt[b]] = c

\* The callbacks that may have counted c. A callback whose loop has reached c
\* has not: it would have passed over c had its author been known before.
Counters(c) == {b \in Callbacks : ~At(b, c)}

\* The strengthening of AuthorsCounted: a callback has counted a block at most
\* once, and a block with an author that is not counted is about to be.
CountInv ==
    /\ \A i \in 1..Len(atHeight) : stage[atHeight[i]] # "none"
    /\ \A b \in Block : stage[b] \notin {"none", "done"} => b \in Callbacks
    /\ \A c \in Block : c \notin author => counted[c] = 0
    /\ \A c \in Block : counted[c] <= Cardinality(Counters(c))
    /\ \A c \in author : counted[c] = 0 => Pending(c)

\* There is one callback less than there are blocks.
LEMMA FewCallbacks ==
    ASSUME TypeOK
    PROVE  /\ IsFiniteSet(Callbacks)
           /\ Callbacks # {} => Cardinality(Callbacks) < Len(atHeight)
  <1> DEFINE f == [i \in 2..Len(atHeight) |-> atHeight[i]]
  <1>1. Len(atHeight) \in Nat
    BY DEF TypeOK
  <1>2. /\ IsFiniteSet(2..Len(atHeight))
        /\ Cardinality(2..Len(atHeight)) = IF 2 > Len(atHeight) THEN 0 ELSE Len(atHeight) - 2 + 1
    BY <1>1, FS_Interval
  <1>3. f \in Surjection(2..Len(atHeight), Callbacks)
    BY DEF Surjection, Callbacks
  <1> HIDE DEF f
  <1>4. IsFiniteSet(Callbacks) /\ Cardinality(Callbacks) <= Cardinality(2..Len(atHeight))
    <2>1. IsFiniteSet(2..Len(atHeight))
      BY <1>2
    <2>2. QED
      BY <1>3, <2>1, FS_Surjection
  <1>5. Callbacks # {} => 2 <= Len(atHeight)
    BY <1>1 DEF Callbacks
  <1>6. Cardinality(Callbacks) \in Nat
    BY <1>4, FS_CardinalityType
  <1>7. ASSUME Callbacks # {}
        PROVE  Cardinality(Callbacks) < Len(atHeight)
    <2>1. Cardinality(2..Len(atHeight)) = Len(atHeight) - 2 + 1
      BY <1>1, <1>2, <1>5, <1>7
    <2>2. QED
      BY <1>1, <1>4, <1>6, <2>1
  <1>8. QED
    BY <1>4, <1>7

LEMMA CountersFinite ==
    ASSUME TypeOK, NEW c
    PROVE  /\ IsFiniteSet(Counters(c)) /\ Cardinality(Counters(c)) \in Nat
           /\ Cardinality(Counters(c)) <= Cardinality(Callbacks)
           /\ Cardinality(Callbacks) \in Nat
  <1>1. IsFiniteSet(Callbacks) /\ Counters(c) \subseteq Callbacks
    BY FewCallbacks DEF Counters
  <1>2. QED
    BY <1>1, FS_Subset, FS_CardinalityType

LEMMA CountInvCounts == TypeOK /\ CountInv => AuthorsCounted
  <1> SUFFICES ASSUME TypeOK, CountInv, NEW c \in Block
               PROVE  /\ Settled /\ c \in author => counted[c] > 0
                      /\ counted[c] > 0 => counted[c] < Len(atHeight)
    BY DEF AuthorsCounted
  <1>1. counted[c] \in Nat /\ Len(atHeight) \in Nat
    BY DEF TypeOK
  <1>2. Settled /\ c \in author => counted[c] > 0
    BY <1>1 DEF Settled, CountInv, Pending
  <1>3. ASSUME counted[c] > 0
        PROVE  counted[c] < Len(atHeight)
    <2>1. counted[c] <= Cardinality(Counters(c))
      BY DEF CountInv
    <2>2. /\ Cardinality(Counters(c)) \in Nat /\ Cardinality(Callbacks) \in Nat
          /\ Cardinality(Counters(c)) <= Cardinality(Callbacks)
      BY CountersFinite
    <2>3. Cardinality(Callbacks) > 0
      BY <1>1, <1>3, <2>1, <2>2
    <2>4. Callbacks # {}
      BY <2>3, FS_EmptySet
    <2>5. Cardinality(Callbacks) < Len(atHeight)
      BY <2>4, FewCallbacks
    <2>6. QED
      BY <1>1, <2>1, <2>2, <2>5
  <1>4. QED
    BY <1>2, <1>3

LEMMA InitCounts == Init => CountInv
  <1> SUFFICES ASSUME Init
               PROVE  CountInv
    OBVIOUS
  <1>1. Len(atHeight) = 0 /\ author = {} /\ \A c \in Block : counted[c] = 0 /\ stage[c] = "none"
    BY DEF Init
  <1>2. \A c \in Block : counted[c] <= Cardinality(Counters(c))
    <2>1. TypeOK
      BY InitTypes
    <2>2. QED
      BY <1>1, <2>1, CountersFinite
  <1>3. QED
    BY <1>1, <1>2 DEF CountInv

\* One callback moves, and counts a block at most when it leaves it.
LEMMA CountKept ==
    ASSUME TypeOK, TypeOK', LoopInv, CountInv, NEW b \in Block,
           \A d \in Block : d # b => stage'[d] = stage[d] /\ loopAt'[d] = loopAt[d],
           Len(atHeight) <= Len(atHeight'),
           \A i \in 1..Len(atHeight) : atHeight'[i] = atHeight[i],
           \A i \in 1..Len(atHeight') : i > Len(atHeight) => atHeight'[i] = b,
           stage'[b] # "none", stage'[b] = "done" \/ b \in Callbacks',
           author \subseteq author',
           \A c \in author : At(b, c)' => At(b, c),
           \A c \in author : Pending(c) => Pending(c)' \/ counted'[c] > 0,
           \A c \in Block :
              \/ counted'[c] = counted[c] /\ (c \in author' \ author => Pending(c)')
              \/ /\ counted'[c] = counted[c] + 1 /\ c \in author'
                 /\ b \notin Counters(c) /\ b \in Counters(c)'
    PROVE  CountInv'
  <1>t. /\ Len(atHeight) \in Nat /\ Len(atHeight') \in Nat
        /\ \A i \in 1..Len(atHeight) : atHeight[i] \in Block
        /\ \A c \in Block : counted[c] \in Nat /\ counted'[c] \in Nat
        /\ author \subseteq Block /\ author' \subseteq Block
    BY DEF TypeOK
  <1>c. Callbacks \subseteq Callbacks' /\ Callbacks \subseteq Block
    BY <1>t DEF Callbacks
  <1>g. ASSUME NEW c \in author
        PROVE  Counters(c) \subseteq Counters(c)'
    <2> SUFFICES ASSUME NEW d \in Callbacks, ~At(d, c), At(d, c)'
                 PROVE  FALSE
      BY <1>c DEF Counters
    <2>1. d # b /\ d \in Block
      BY <1>c
    <2>2. stage[d] \in {"extract", "identity"} /\ loopAt'[d] = loopAt[d]
      BY <2>1 DEF At
    <2>3. atHeight'[loopAt'[d]] = atHeight[loopAt[d]]
      BY <2>1, <2>2 DEF LoopInv
    <2>4. QED
      BY <2>2, <2>3 DEF At
  <1>1. \A i \in 1..Len(atHeight') : stage'[atHeight'[i]] # "none"
    <2> SUFFICES ASSUME NEW i \in 1..Len(atHeight')
                 PROVE  stage'[atHeight'[i]] # "none"
      OBVIOUS
    <2>1. CASE i > Len(atHeight)
      BY <2>1
    <2>2. CASE ~(i > Len(atHeight))
      <3>1. i \in 1..Len(atHeight)
        BY <1>t, <2>2
      <3>2. atHeight'[i] = atHeight[i] /\ atHeight[i] \in Block /\ stage[atHeight[i]] # "none"
        BY <1>t, <3>1 DEF CountInv
      <3>3. QED
        BY <3>2
    <2>3. QED
      BY <2>1, <2>2
  <1>2. \A d \in Block : stage'[d] \notin {"none", "done"} => d \in Callbacks'
    BY <1>c DEF CountInv
  <1>3. \A c \in Block : c \notin author' => counted'[c] = 0
    BY DEF CountInv
  <1>4. ASSUME NEW c \in Block
        PROVE  counted'[c] <= Cardinality(Counters(c)')
    <2>1. /\ IsFiniteSet(Counters(c)) /\ Cardinality(Counters(c)) \in Nat
          /\ counted[c] <= Cardinality(Counters(c))
      BY CountersFinite DEF CountInv
    <2>2. IsFiniteSet(Counters(c)') /\ Cardinality(Counters(c)') \in Nat
      <3>1. (TypeOK => IsFiniteSet(Counters(c)) /\ Cardinality(Counters(c)) \in Nat)'
        BY CountersFinite, PTL
      <3>2. QED
        BY <3>1
    <2>3. c \in author => Cardinality(Counters(c)) <= Cardinality(Counters(c)')
      BY <1>g, <2>2, FS_Subset
    <2>4. c \notin author => counted[c] = 0
      BY DEF CountInv
    <2>5. CASE counted'[c] = counted[c]
      BY <1>t, <2>1, <2>2, <2>3, <2>4, <2>5
    <2>6. CASE counted'[c] = counted[c] + 1 /\ b \notin Counters(c) /\ b \in Counters(c)'
      <3>1. CASE c \in author
        <4>1. Counters(c) \cup {b} \subseteq Counters(c)'
          BY <1>g, <2>6, <3>1
        <4>2. Cardinality(Counters(c) \cup {b}) = Cardinality(Counters(c)) + 1
          BY <2>1, <2>6, FS_AddElement
        <4>3. Cardinality(Counters(c) \cup {b}) <= Cardinality(Counters(c)')
          BY <2>2, <4>1, FS_Subset
        <4>4. QED
          BY <1>t, <2>1, <2>2, <2>6, <4>2, <4>3
      <3>2. CASE c \notin author
        <4>1. counted'[c] = 1
          BY <2>4, <2>6, <3>2
        <4>2. Cardinality(Counters(c)') # 0
          BY <2>2, <2>6, FS_EmptySet
        <4>3. QED
          BY <2>2, <4>1, <4>2
      <3>3. QED
        BY <3>1, <3>2
    <2>7. QED
      BY <2>5, <2>6
  <1>5. \A c \in author' : counted'[c] = 0 => Pending(c)'
    <2> SUFFICES ASSUME NEW c \in author', counted'[c] = 0
                 PROVE  Pending(c)'
      OBVIOUS
    <2>1. c \in Block /\ counted[c] \in Nat
      BY <1>t
    <2>2. counted[c] = 0 /\ (c \in author' \ author => Pending(c)')
      BY <2>1
    <2>3. c \in author => Pending(c)
      BY <2>2 DEF CountInv
    <2>4. QED
      BY <2>2, <2>3
  <1>6. QED
    BY <1>1, <1>2, <1>3, <1>4, <1>5 DEF CountInv

LEMMA NextCounts == TypeOK /\ LoopInv /\ CountInv /\ [Next]_vars => CountInv'
  <1> SUFFICES ASSUME TypeOK, LoopInv, CountInv, [Next]_vars
               PROVE  CountInv'
    OBVIOUS
  <1> USE DEF blockVars, analysisVars, recordVars
  <1>t. /\ stage \in [Block -> Stage] /\ atHeight \in Seq(Block) /\ Len(atHeight) \in Nat
        /\ counted \in [Block -> Nat] /\ author \subseteq Block
    BY DEF TypeOK
  <1>t1. TypeOK'
    BY NextTypes
  <1>b. \A b \in Block : stage[b] \notin {"none", "done"} => b \in Callbacks
    BY DEF CountInv
  <1>0. ASSUME UNCHANGED <<atHeight, stage, loopAt, author, counted>>
        PROVE  CountInv'
    <2>1. Callbacks' = Callbacks
      BY <1>0 DEF Callbacks
    <2>2. \A c : At(c, c)' = At(c, c)
      BY <1>0 DEF At
    <2>3. \A c : Counters(c)' = Counters(c)
      BY <1>0, <2>1 DEF Counters, At
    <2>4. \A c : Pending(c)' = Pending(c)
      BY <1>0 DEF Pending
    <2>5. QED
      BY <1>0, <2>1, <2>3, <2>4 DEF CountInv
  \* a callback that has nothing to count
  <1>q. ASSUME NEW b \in Block, UNCHANGED <<atHeight, author, counted>>,
               \A d \in Block : d # b => stage'[d] = stage[d] /\ loopAt'[d] = loopAt[d],
               stage[b] \notin {"none", "done", "identity"}, stage'[b] # "none",
               stage'[b] \in {"extract", "identity"} => atHeight[loopAt'[b]] \notin author
        PROVE  CountInv'
    <2>1. Callbacks' = Callbacks /\ b \in Callbacks
      BY <1>b, <1>q DEF Callbacks
    <2>2. \A c \in author : At(b, c)' => At(b, c)
      BY <1>q DEF At
    <2>3. \A c \in author : Pending(c) => Pending(c)'
      BY <1>q DEF Pending
    <2>4. QED
      BY <1>t, <1>t1, <1>q, <2>1, <2>2, <2>3, CountKept
  \* a callback that counts the block x of its loop and goes on
  <1>n. ASSUME NEW b \in Block, NEW x \in Block, x = atHeight[loopAt[b]],
               stage[b] \in {"extract", "identity"}, Goes(b), UNCHANGED atHeight,
               author' = author \cup {x}, counted' = [counted EXCEPT ![x] = @ + 1]
        PROVE  CountInv'
    <2>1. /\ \A d \in Block : d # b => stage'[d] = stage[d] /\ loopAt'[d] = loopAt[d]
          /\ \/ stage'[b] = "done"
             \/ stage'[b] = "extract" /\ atHeight[loopAt'[b]] \notin author'
      BY <1>n, GoesEffect
    <2>2. Callbacks' = Callbacks /\ b \in Callbacks
      BY <1>b, <1>n DEF Callbacks
    <2>3. \A c \in author' : ~At(b, c)'
      BY <1>n, <2>1 DEF At
    <2>4. \A c \in Block : counted'[c] = counted[c] + IF c = x THEN 1 ELSE 0
      BY <1>n, <1>t
    <2>5. b \notin Counters(x)
      BY <1>n DEF Counters, At
    <2>6. b \in Counters(x)'
      BY <1>n, <2>2, <2>3 DEF Counters
    <2>7. \A c \in author : Pending(c) => Pending(c)' \/ counted'[c] > 0
      <3> SUFFICES ASSUME NEW c \in author, Pending(c)
                   PROVE  Pending(c)' \/ counted'[c] > 0
        OBVIOUS
      <3>1. CASE c = x
        <4>1. counted[x] \in Nat /\ counted'[x] = counted[x] + 1
          BY <1>t, <2>4
        <4>2. QED
          BY <3>1, <4>1
      <3>2. CASE c # x
        <4>1. PICK d \in Block : stage[d] = "identity" /\ atHeight[loopAt[d]] = c
          BY DEF Pending
        <4>2. d # b
          BY <1>n, <3>2, <4>1
        <4>3. QED
          BY <1>n, <2>1, <4>1, <4>2 DEF Pending
      <3>3. QED
        BY <3>1, <3>2
    <2>8. \A c \in Block :
             \/ counted'[c] = counted[c] /\ (c \in author' \ author => Pending(c)')
             \/ /\ counted'[c] = counted[c] + 1 /\ c \in author'
                /\ b \notin Counters(c) /\ b \in Counters(c)'
      <3> SUFFICES ASSUME NEW c \in Block
                   PROVE  \/ counted'[c] = counted[c] /\ (c \in author' \ author => Pending(c)')
                          \/ /\ counted'[c] = counted[c] + 1 /\ c \in author'
                             /\ b \notin Counters(c) /\ b \in Counters(c)'
        OBVIOUS
      <3>1. CASE c = x
        BY <1>n, <2>4, <2>5, <2>6, <3>1
      <3>2. CASE c # x
        <4>1. counted'[c] = counted[c]
          BY <1>t, <2>4, <3>2
        <4>2. c \notin author' \ author
          BY <1>n, <3>2
        <4>3. QED
          BY <4>1, <4>2
      <3>3. QED
        BY <3>1, <3>2
    <2>9. \A c \in author : At(b, c)' => At(b, c)
      BY <1>n, <2>3
    <2>10. stage'[b] # "none" /\ author \subseteq author'
      BY <1>n, <2>1
    <2>11. QED
      BY <1>t, <1>t1, <1>n, <2>1, <2>2, <2>7, <2>8, <2>9, <2>10, CountKept
  \* a block joins the height
  <1>j. ASSUME NEW b \in Block, HeadAlone(b) \/ HeadForkDetected(b) \/ HeadForkUpdated(b)
        PROVE  CountInv'
    <2>1. /\ stage[b] = "none" /\ UNCHANGED <<author, loopAt>>
          /\ atHeight' = Append(atHeight, b)
      <3>1. HeadAlone(b) => atHeight' = Append(atHeight, b)
        BY DEF HeadAlone
      <3>2. QED
        BY <1>j, <3>1 DEF HeadAlone, HeadForkDetected, HeadForkUpdated
    <2>2. /\ Len(atHeight') = Len(atHeight) + 1 /\ atHeight'[Len(atHeight) + 1] = b
          /\ \A i \in 1..Len(atHeight) : atHeight'[i] = atHeight[i]
      BY <1>t, <2>1, AppendProperties
    <2>3. stage'[b] \in {"done", "detected", "updated"}
          /\ \A d \in Block : d # b => stage'[d] = stage[d]
      BY <1>j, <1>t DEF HeadAlone, HeadForkDetected, HeadForkUpdated, Move
    <2>4. stage'[b] # "done" => b \in Callbacks'
      <3> SUFFICES ASSUME stage'[b] # "done"
                   PROVE  b \in Callbacks'
        OBVIOUS
      <3>1. atHeight # <<>>
        BY <1>j, <1>t DEF HeadAlone, HeadForkDetected, HeadForkUpdated, Move
      <3>2. Len(atHeight) # 0
        BY <1>t, <3>1, EmptySeq
      <3>3. Len(atHeight) + 1 \in 2..Len(atHeight')
        BY <1>t, <2>2, <3>2
      <3>4. QED
        BY <2>2, <3>3 DEF Callbacks
    <2>5. b \notin Callbacks
      BY <1>t, <2>1 DEF Callbacks, CountInv
    <2>6. \A c : ~At(b, c)'
      BY <2>3 DEF At
    <2>7. \A c \in author : Pending(c) => Pending(c)'
      <3> SUFFICES ASSUME NEW c \in author, Pending(c)
                   PROVE  Pending(c)'
        OBVIOUS
      <3>1. PICK d \in Block : stage[d] = "identity" /\ atHeight[loopAt[d]] = c
        BY DEF Pending
      <3>2. d # b /\ loopAt[d] \in 1..Len(atHeight)
        BY <2>1, <3>1 DEF LoopInv
      <3>3. stage'[d] = "identity" /\ atHeight'[loopAt'[d]] = c
        BY <2>1, <2>2, <2>3, <3>1, <3>2
      <3>4. QED
        BY <3>3 DEF Pending
    <2>8. \A c \in Block :
             \/ counted'[c] = counted[c]
             \/ /\ counted'[c] = counted[c] + 1 /\ c \in author
                /\ b \notin Counters(c) /\ b \in Counters(c)'
      <3>1. CASE UNCHANGED counted
        BY <3>1
      <3>2. CASE HeadForkDetected(b)
        <4>1. /\ stage'[b] # "done"
              /\ \A c \in Block : counted'[c] = counted[c] + IF c \in author THEN 1 ELSE 0
          BY <3>2, <1>t DEF HeadForkDetected, Move
        <4>2. \A c : b \notin Counters(c) /\ b \in Counters(c)'
          BY <2>4, <2>5, <2>6, <4>1 DEF Counters
        <4>3. \A c \in Block : counted[c] + 0 = counted[c]
          BY <1>t
        <4>4. QED
          BY <4>1, <4>2, <4>3
      <3>3. QED
        BY <1>j, <3>1, <3>2 DEF HeadAlone, HeadForkUpdated
    <2>9. \A i \in 1..Len(atHeight') : i > Len(atHeight) => atHeight'[i] = b
      BY <1>t, <2>2
    <2>10. Len(atHeight) <= Len(atHeight') /\ author' = author
      BY <1>t, <2>1, <2>2
    <2>11. \A d \in Block : d # b => stage'[d] = stage[d] /\ loopAt'[d] = loopAt[d]
      BY <2>1, <2>3
    <2>12. QED
      BY <1>t1, <2>2, <2>3, <2>4, <2>6, <2>7, <2>8, <2>9, <2>10, <2>11, CountKept
  <1>1. ASSUME NEW b \in Block, StartAnalysis(b) \/ RelayParentsMissing(b)
        PROVE  CountInv'
    <2>1. /\ stage[b] \in {"detected", "lookup"} /\ stage'[b] \in {"lookup", "retry"}
          /\ UNCHANGED <<atHeight, author, counted, loopAt>>
          /\ \A d \in Block : d # b => stage'[d] = stage[d]
      BY <1>1, <1>t DEF StartAnalysis, RelayParentsMissing, Move
    <2>2. QED
      BY <2>1, <1>q
  <1>2. ASSUME NEW b \in Block, CompetingBlockInserted(b) \/ CauseSaved(b) \/ AuthorUnknown(b)
        PROVE  CountInv'
    <2>1. /\ Goes(b) /\ UNCHANGED <<atHeight, author, counted>>
          /\ stage[b] \in {"updated", "saving", "extract"}
      <3>1. CASE StartEnrichment(b)
        BY <1>2, <3>1, StartGoes DEF CompetingBlockInserted, CauseSaved, AuthorUnknown
      <3>2. CASE AuthorUnknown(b)
        <4>1. loopAt[b] \in Nat
          BY DEF TypeOK
        <4>2. loopAt[b] + 1 \in Nat \ {0}
          BY <4>1
        <4>3. QED
          BY <3>2, <4>2 DEF AuthorUnknown, Goes
      <3>3. QED
        BY <1>2, <3>1, <3>2 DEF CompetingBlockInserted, CauseSaved
    <2>2. QED
      BY <2>1, <1>q, GoesEffect
  <1>3. ASSUME NEW b \in Block, RelayParentsFound(b) \/ RelayParentsRetried(b)
        PROVE  CountInv'
    <2>1. PICK found \in Answers(b) : Conclude(b, found)
      BY <1>3 DEF RelayParentsFound, RelayParentsRetried
    <2>2. stage[b] \in {"lookup", "retry"} /\ UNCHANGED <<atHeight, counted>>
      BY <1>3 DEF RelayParentsFound, RelayParentsRetried
    <2>3. \/ StartEnrichment(b)
          \/ Move(b, "saving") /\ UNCHANGED <<author, authorName, loopAt>>
      BY <2>1, ConcludeEffect
    <2>4. CASE StartEnrichment(b)
      <3>1. Goes(b) /\ UNCHANGED author
        BY <2>4, StartGoes
      <3>2. QED
        BY <2>2, <3>1, <1>q, GoesEffect
    <2>5. CASE Move(b, "saving") /\ UNCHANGED <<author, authorName, loopAt>>
      <3>1. stage'[b] = "saving" /\ \A d \in Block : d # b => stage'[d] = stage[d]
        BY <1>t, <2>5 DEF Move
      <3>2. QED
        BY <2>2, <2>5, <3>1, <1>q
    <2>6. QED
      BY <2>3, <2>4, <2>5
  <1>4. ASSUME NEW b \in Block, AuthorFound(b)
        PROVE  CountInv'
    <2>1. PICK x \in Block : x = atHeight[loopAt[b]]
      BY <1>4, <1>t DEF AuthorFound, LoopInv
    <2>2. /\ stage[b] = "extract" /\ stage'[b] = "identity"
          /\ \A d \in Block : d # b => stage'[d] = stage[d]
          /\ author' = author \cup {x} /\ UNCHANGED <<atHeight, loopAt, counted>>
      BY <1>4, <1>t, <2>1 DEF AuthorFound, Move
    <2>3. Callbacks' = Callbacks /\ b \in Callbacks
      BY <1>b, <2>2 DEF Callbacks
    <2>4. Pending(x)'
      BY <2>1, <2>2 DEF Pending
    <2>5. \A c \in author : Pending(c) => Pending(c)'
      BY <2>2 DEF Pending
    <2>6. \A c \in author : At(b, c)' => At(b, c)
      BY <2>2 DEF At
    <2>7. \A c \in Block : counted'[c] = counted[c] /\ (c \in author' \ author => Pending(c)')
      BY <2>2, <2>4
    <2>8. QED
      BY <1>t, <1>t1, <2>2, <2>3, <2>5, <2>6, <2>7, CountKept
  <1>5. ASSUME NEW b \in Block, AuthorFoundNamed(b) \/ IdentityFetched(b)
        PROVE  CountInv'
    <2> DEFINE x == atHeight[loopAt[b]]
    <2>1. PICK cached : NameAndCount(b, cached)
      BY <1>5 DEF AuthorFoundNamed, IdentityFetched
    <2>2. stage[b] \in {"extract", "identity"} /\ UNCHANGED atHeight
      BY <1>5 DEF AuthorFoundNamed, IdentityFetched
    <2>3. x \in Block /\ Goes(b)
      BY <2>1, <2>2, NameEffect
    <2>4. counted' = [counted EXCEPT ![x] = @ + 1]
      BY <2>1 DEF NameAndCount
    <2>5. author' = author \cup {x}
      <3>1. AuthorFoundNamed(b) => author' = author \cup {x}
        BY DEF AuthorFoundNamed
      <3>2. ASSUME IdentityFetched(b)
            PROVE  author' = author /\ x \in author
        BY <3>2 DEF IdentityFetched, LoopInv
      <3>3. QED
        BY <1>5, <3>1, <3>2
    <2>x. x = atHeight[loopAt[b]]
      OBVIOUS
    <2> HIDE DEF x
    <2>6. QED
      BY <2>x, <2>2, <2>3, <2>4, <2>5, <1>n
  <1>6. ASSUME \/ Finalized \/ Pruned
               \/ (\E a \in Account : PrefetchIdentity(a) \/ PrefetchedIdentity(a)) \/ UNCHANGED vars
        PROVE  CountInv'
    BY <1>0, <1>6 DEF Finalized, Pruned, PrefetchIdentity, PrefetchedIdentity, vars
  <1>7. QED
    BY <1>j, <1>1, <1>2, <1>3, <1>4, <1>5, <1>6 DEF Next, Callback

\* Every block whose author became known is counted for it, and by each callback
\* of a competing block at most once.
THEOREM AuthorsOnceCounted == Spec => []AuthorsCounted
  BY InitTypes, NextTypes, InitCounts, NextCounts, CountInvCounts, PTL DEF Spec

=============================================================================
