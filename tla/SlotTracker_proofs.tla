-------------------------- MODULE SlotTracker_proofs --------------------------
(***************************************************************************)
(* Proofs about SlotTracker for every chain, window and history length:    *)
(* processing never goes back, every slot is counted exactly once, and a   *)
(* reported run of misses is whole.                                        *)
(***************************************************************************)
EXTENDS SlotTracker, SequenceTheorems, FiniteSetTheorems, TLAPS

-----------------------------------------------------------------------------
(* Types and the running job *)

\* _queue runs one job at a time
OneJob == \A i, j \in jobs : i = j

\* the blocks that have a slot
Slotted == {k \in BlockNumber : Slot[k] # Unset}

\* A running job is about a header above what was processed; a slot whose
\* author is awaited is above what was recorded.
JobInv == \A j \in jobs :
    /\ j.at <= j.number
    /\ lastProcessedBlock # Unset => j.number > lastProcessedBlock
    /\ j.stage = "author" => j.at \in Slotted /\ (lastSlot # Unset => Slot[j.at] > lastSlot)

Entry == [slot : Nat, block : BlockNumber \cup {Unset}]

Waiting == [number : BlockNumber, prev : BlockNumber \cup {Unset}]

Job == [number : BlockNumber, at : BlockNumber, stage : JobStage]

LEMMA NumberTypes ==
    /\ BlockNumber \subseteq Nat \ {0} /\ Unset \notin Int /\ Unset \notin Nat
    /\ \A k \in BlockNumber : Slot[k] \in Nat \cup {Unset}
    /\ \A k \in Slotted : k \in BlockNumber /\ Slot[k] \in Nat
    /\ \A k, m \in Slotted : (k < m => Slot[k] <= Slot[m]) /\ (Slot[k] < Slot[m] => k < m)
    /\ \A k \in BlockNumber : k <= MaxNumber /\ \A i \in Int : 1 <= i /\ i <= k => i \in BlockNumber
  <1>1. /\ BlockNumber \subseteq Nat \ {0} /\ Unset \notin Int /\ Unset \notin Nat
        /\ \A k \in BlockNumber : Slot[k] \in Nat \cup {Unset}
        /\ \A k \in BlockNumber : k <= MaxNumber /\ \A i \in Int : 1 <= i /\ i <= k => i \in BlockNumber
    BY SlotAssumption DEF BlockNumber
  <1>2. \A k \in Slotted : k \in BlockNumber /\ Slot[k] \in Nat
    BY <1>1 DEF Slotted
  <1>3. \A k, m \in Slotted : k < m => Slot[k] <= Slot[m]
    BY SlotAssumption DEF Slotted, BlockNumber
  <1>4. ASSUME NEW k \in Slotted, NEW m \in Slotted, Slot[k] < Slot[m]
        PROVE  k < m
    <2>1. k \in Nat /\ m \in Nat /\ Slot[k] \in Nat /\ Slot[m] \in Nat
      BY <1>1, <1>2
    <2>2. k # m /\ ~(m < k)
      BY <1>3, <1>4, <2>1
    <2>3. QED
      BY <2>1, <2>2
  <1>5. QED
    BY <1>1, <1>2, <1>3, <1>4

LEMMA JobAtType ==
    ASSUME NEW k \in BlockNumber, NEW i \in BlockNumber
    PROVE  /\ JobAt(k, i) \in Job
           /\ JobAt(k, i).number = k /\ JobAt(k, i).at = i
           /\ JobAt(k, i).stage # "author"
  BY DEF JobAt, Job, JobStage

\* A capped list keeps its newest entries.
LEMMA KeepNewestType ==
    ASSUME NEW S, NEW s \in Seq(S), NEW cap \in Nat \ {0}
    PROVE  KeepNewest(s, cap) \in Seq(S)
  <1>1. Len(s) \in Nat
    OBVIOUS
  <1>2. ASSUME Len(s) > cap
        PROVE  SubSeq(s, Len(s) - cap + 1, Len(s)) \in Seq(S)
    BY <1>1, <1>2, SubSeqProperties
  <1>3. QED
    BY <1>2 DEF KeepNewest

LEMMA CombosType ==
    ASSUME missedCombos \in Seq(Run), NEW run \in Run \cup {Unset}
    PROVE  CombosWith(run) \in Seq(Run)
  <1>1. CASE run = Unset
    BY <1>1 DEF CombosWith
  <1>2. CASE run \in Run
    <2>1. Append(missedCombos, run) \in Seq(Run)
      BY <1>2
    <2>2. KeepNewest(Append(missedCombos, run), MaxCombos) \in Seq(Run)
      BY <2>1, SlotAssumption, KeepNewestType
    <2>3. QED
      BY <2>2 DEF CombosWith
  <1>3. QED
    BY <1>1, <1>2

\* Recording the misses of a gap
LEMMA RecordMissesType ==
    ASSUME TypeOK, NEW lo \in Nat, NEW hi \in Nat, lo <= hi, RecordMisses(lo, hi)
    PROVE  /\ totalMissed' \in Nat /\ recentSlots' \in Seq(Entry)
           /\ openMiss' \in Run \cup {Unset} /\ missedCombos' \in Seq(Run)
  <1> DEFINE count == hi - lo + 1
             misses == [i \in 1..count |-> [slot |-> lo + i - 1, block |-> Unset]]
  <1>1. count \in Nat /\ \A i \in 1..count : lo + i - 1 \in Nat
    OBVIOUS
  <1>2. misses \in Seq(Entry)
    BY <1>1 DEF Entry
  <1>3. recentSlots \in Seq(Entry)
    BY DEF TypeOK, Entry
  <1>4. recentSlots' = KeepNewest(recentSlots \o misses, MaxHistory)
    BY DEF RecordMisses
  <1> HIDE DEF misses, count
  <1>5. recentSlots' \in Seq(Entry)
    BY <1>2, <1>3, <1>4, SlotAssumption, KeepNewestType, ConcatProperties
  <1>6. missedCombos' \in Seq(Run)
    BY CombosType DEF RecordMisses, TypeOK
  <1>7. openMiss' \in Run \cup {Unset} /\ totalMissed' \in Nat
    <2>1. /\ totalMissed' = totalMissed + count
          /\ \/ openMiss' = [start |-> lo, length |-> count]
             \/ openMiss # Unset /\ openMiss' = [openMiss EXCEPT !.length = @ + count]
      BY DEF RecordMisses, count
    <2>2. [start |-> lo, length |-> count] \in Run /\ count \in Nat
      BY <1>1 DEF Run
    <2>3. openMiss # Unset => [openMiss EXCEPT !.length = @ + count] \in Run
      <3> SUFFICES ASSUME openMiss \in Run
                   PROVE  [openMiss EXCEPT !.length = @ + count] \in Run
        BY DEF TypeOK
      <3>1. openMiss.start \in Nat /\ openMiss.length + count \in Nat
        BY <2>2 DEF Run
      <3>2. QED
        BY <3>1 DEF Run
    <2>4. totalMissed' \in Nat
      BY <2>1, <2>2 DEF TypeOK
    <2>5. QED
      BY <2>1, <2>2, <2>3, <2>4
  <1>8. QED
    BY <1>5, <1>6, <1>7

\* Recording a produced slot
LEMMA RecordProduceType ==
    ASSUME TypeOK, NEW k \in Slotted, RecordProduce(k)
    PROVE  /\ totalProduced' \in Nat /\ recentSlots' \in Seq(Entry)
           /\ openMiss' \in Run \cup {Unset} /\ missedCombos' \in Seq(Run)
           /\ lastSlot' = Slot[k] /\ lastSlot' \in Nat
           /\ firstBlock' \in BlockNumber \cup {Unset}
  <1>1. [slot |-> Slot[k], block |-> k] \in Entry
    BY NumberTypes DEF Entry
  <1>2. recentSlots \in Seq(Entry)
    BY DEF TypeOK, Entry
  <1>3. Append(recentSlots, [slot |-> Slot[k], block |-> k]) \in Seq(Entry)
    BY <1>1, <1>2
  <1>4. recentSlots' \in Seq(Entry)
    BY <1>3, SlotAssumption, KeepNewestType DEF RecordProduce
  <1>5. missedCombos' \in Seq(Run)
    BY CombosType DEF RecordProduce, TypeOK
  <1>6. QED
    BY <1>4, <1>5, NumberTypes DEF RecordProduce, TypeOK

\* The job moves on to the next block, or ends.
LEMMA MoveOnEffect ==
    ASSUME TypeOK, OneJob, JobInv, NEW j \in jobs, MoveOn(j)
    PROVE  /\ jobs' \subseteq Job
           /\ OneJob'
           /\ lastProcessedBlock' \in BlockNumber \cup {Unset}
           /\ lastProcessedBlock # Unset => lastProcessedBlock' >= lastProcessedBlock
           /\ \A i \in jobs' : /\ i.stage # "author"
                               /\ i.at <= i.number
                               /\ lastProcessedBlock' # Unset => i.number > lastProcessedBlock'
           /\ \/ jobs' = {} /\ lastProcessedBlock' = j.number /\ j.at = j.number
              \/ jobs' = {JobAt(j.number, j.at + 1)} /\ UNCHANGED lastProcessedBlock
                 /\ j.at + 1 \in BlockNumber
  <1>1. jobs = {j} /\ j \in Job /\ j.at <= j.number
    BY DEF OneJob, JobInv, TypeOK, Job
  <1>2. j.number \in BlockNumber /\ j.at \in BlockNumber
    BY <1>1 DEF Job
  <1>3. CASE j.at < j.number
    <2>1. j.at + 1 \in BlockNumber
      BY <1>2, <1>3, SlotAssumption DEF BlockNumber
    <2>2. jobs' = {JobAt(j.number, j.at + 1)} /\ UNCHANGED lastProcessedBlock
      BY <1>1, <1>3 DEF MoveOn
    <2>3. j.at + 1 <= j.number
      BY <1>2, <1>3, SlotAssumption DEF BlockNumber
    <2>4. OneJob'
      BY <2>2 DEF OneJob
    <2>5. QED
      BY <1>2, <2>1, <2>2, <2>3, <2>4, JobAtType, SlotAssumption DEF JobInv, TypeOK, BlockNumber
  <1>4. CASE ~(j.at < j.number)
    <2>1. jobs' = {} /\ lastProcessedBlock' = j.number
      BY <1>1, <1>4 DEF MoveOn
    <2>2. j.at = j.number
      BY <1>1, <1>2, <1>4, SlotAssumption DEF BlockNumber
    <2>3. lastProcessedBlock # Unset => j.number > lastProcessedBlock
      BY DEF JobInv
    <2>4. QED
      BY <1>2, <2>1, <2>2, <2>3, SlotAssumption DEF OneJob, TypeOK, BlockNumber
  <1>5. QED
    BY <1>3, <1>4

\* processSlotWithActual up to its await
LEMMA HandleSlotEffect ==
    ASSUME TypeOK, OneJob, JobInv, NEW j \in jobs, j.stage # "author", HandleSlot(j)
    PROVE  /\ jobs' \subseteq Job /\ OneJob' /\ JobInv'
           /\ UNCHANGED <<lastSlot, totalProduced>>
           /\ lastProcessedBlock' \in BlockNumber \cup {Unset}
           /\ lastProcessedBlock # Unset => lastProcessedBlock' >= lastProcessedBlock
           /\ totalMissed' \in Nat /\ recentSlots' \in Seq(Entry)
           /\ openMiss' \in Run \cup {Unset} /\ missedCombos' \in Seq(Run)
  <1> DEFINE s == Slot[j.at]
             waiting == [j EXCEPT !.stage = "author"]
  <1>1. jobs = {j} /\ j \in Job /\ j.number \in BlockNumber /\ j.at \in BlockNumber
        /\ j.at <= j.number
    BY NumberTypes DEF OneJob, JobInv, TypeOK, Job
  <1>2. CASE PassedOver(s)
    <2>1. MoveOn(j) /\ UNCHANGED slotVars
      BY <1>2 DEF HandleSlot
    <2>2. QED
      BY <2>1, MoveOnEffect DEF JobInv, slotVars, TypeOK, Entry
  <1>3. CASE ~PassedOver(s)
    <2>0. j.at \in Slotted /\ s \in Nat
      BY <1>1, <1>3, NumberTypes DEF PassedOver, Slotted
    <2>1. /\ jobs' = {waiting}
          /\ UNCHANGED <<lastSlot, totalProduced, lastProcessedBlock>>
          /\ IF lastSlot # Unset /\ s > lastSlot + 1
             THEN RecordMisses(lastSlot + 1, s - 1)
             ELSE UNCHANGED <<totalMissed, recentSlots, openMiss, missedCombos>>
      BY <1>1, <1>3 DEF HandleSlot
    <2>2. /\ waiting \in Job
          /\ waiting.number = j.number /\ waiting.at = j.at
      BY <1>1 DEF Job, JobStage
    <2>3. totalMissed' \in Nat /\ recentSlots' \in Seq(Entry)
          /\ openMiss' \in Run \cup {Unset} /\ missedCombos' \in Seq(Run)
      <3>1. CASE lastSlot # Unset /\ s > lastSlot + 1
        <4>1. lastSlot + 1 \in Nat /\ s - 1 \in Nat /\ lastSlot + 1 <= s - 1
          BY <2>0, <3>1 DEF TypeOK
        <4>2. RecordMisses(lastSlot + 1, s - 1)
          BY <2>1, <3>1
        <4> HIDE DEF s
        <4>3. QED
          BY <4>1, <4>2, RecordMissesType
      <3>2. CASE ~(lastSlot # Unset /\ s > lastSlot + 1)
        BY <2>1, <3>2 DEF TypeOK, Entry
      <3>3. QED
        BY <3>1, <3>2
    <2>4. lastSlot # Unset => s > lastSlot /\ lastSlot \in Nat
      BY <2>0, <1>3 DEF TypeOK, PassedOver
    <2>5. JobInv'
      <3>1. lastProcessedBlock # Unset => j.number > lastProcessedBlock
        BY DEF JobInv
      <3> HIDE DEF waiting
      <3>2. QED
        BY <1>1, <2>0, <2>1, <2>2, <2>4, <3>1 DEF JobInv
    <2>6. lastProcessedBlock # Unset => lastProcessedBlock' >= lastProcessedBlock
      BY <2>1, SlotAssumption DEF TypeOK, BlockNumber
    <2> HIDE DEF waiting
    <2>7. QED
      BY <2>1, <2>2, <2>3, <2>5, <2>6 DEF OneJob, TypeOK
  <1>4. QED
    BY <1>2, <1>3

\* The first header to look at is a block up to the one the job is about.
LEMMA FirstFetchedRange ==
    ASSUME NEW k \in BlockNumber, NEW from \in BlockNumber \cup {Unset}
    PROVE  FirstFetched(k, from) \in BlockNumber /\ FirstFetched(k, from) <= k
  BY SlotAssumption DEF FirstFetched, BlockNumber

\* The first header in _queue
LEMMA QueueTypes ==
    ASSUME TypeOK, queue # <<>>
    PROVE  /\ Head(queue) \in Waiting
           /\ Tail(queue) \in Seq(Waiting)
  <1>1. queue \in Seq(Waiting)
    BY DEF TypeOK, Waiting
  <1>2. QED
    BY <1>1, HeadTailProperties

LEMMA InitSlots == Init => TypeOK /\ OneJob /\ JobInv
  BY SlotAssumption DEF Init, TypeOK, OneJob, JobInv, Run

\* the number a step processes up to and the slot it records up to never fall
Forward ==
    /\ lastSlot # Unset => lastSlot' >= lastSlot
    /\ lastProcessedBlock # Unset => lastProcessedBlock' >= lastProcessedBlock

LEMMA NextSlots ==
    TypeOK /\ OneJob /\ JobInv /\ [Next]_vars => TypeOK' /\ OneJob' /\ JobInv' /\ Forward
  <1> SUFFICES ASSUME TypeOK, OneJob, JobInv, [Next]_vars
               PROVE  TypeOK' /\ OneJob' /\ JobInv' /\ Forward
    OBVIOUS
  <1> USE DEF feedVars, queueVars, slotVars, historyVars
  <1>t. /\ lastSlot # Unset => lastSlot \in Nat
        /\ lastProcessedBlock # Unset => lastProcessedBlock \in BlockNumber
        /\ \A k \in BlockNumber : k \in Nat
    BY NumberTypes DEF TypeOK
  <1>0. UNCHANGED <<jobs, lastSlot, lastProcessedBlock>> => OneJob' /\ JobInv' /\ Forward
    BY <1>t DEF OneJob, JobInv, Forward
  <1>1. ASSUME NEW d \in Node \cup {NoNode}, DriverChanges(d)
        PROVE  TypeOK' /\ OneJob' /\ JobInv' /\ Forward
    BY <1>0, <1>1 DEF DriverChanges, TypeOK
  <1>2. ASSUME NEW n \in Node, NEW k \in BlockNumber, FinalizedHead(n, k)
        PROVE  TypeOK' /\ OneJob' /\ JobInv' /\ Forward
    <2>1. PrevFinalized \in BlockNumber \cup {Unset}
      BY SlotAssumption DEF PrevFinalized, TypeOK, BlockNumber
    <2>2. queue' \in Seq(Waiting)
      <3>1. [number |-> k, prev |-> PrevFinalized] \in Waiting /\ queue \in Seq(Waiting)
        BY <2>1 DEF TypeOK, Waiting
      <3>2. Append(queue, [number |-> k, prev |-> PrevFinalized]) \in Seq(Waiting)
        BY <3>1
      <3>3. QED
        BY <1>2, <3>1, <3>2 DEF FinalizedHead
    <2>3. k \in 0..MaxNumber
      BY SlotAssumption DEF BlockNumber
    <2>4. nodeFinalized' \in [Node -> 0..MaxNumber] /\ finalizedHeight' \in 0..MaxNumber
      BY <1>2, <2>3 DEF FinalizedHead, TypeOK
    <2>5. QED
      BY <1>0, <1>2, <2>2, <2>4 DEF FinalizedHead, TypeOK, Waiting
  <1>3. ASSUME DropStale
        PROVE  TypeOK' /\ OneJob' /\ JobInv' /\ Forward
    <2>1. queue' \in Seq(Waiting)
      BY <1>3, QueueTypes DEF DropStale
    <2>2. QED
      BY <1>0, <1>3, <2>1 DEF DropStale, TypeOK, Waiting
  <1>4. ASSUME Begin
        PROVE  TypeOK' /\ OneJob' /\ JobInv' /\ Forward
    <2> DEFINE k == Head(queue).number
               from == StartFrom(Head(queue).prev)
    <2>1. Head(queue) \in Waiting
      BY <1>4, QueueTypes DEF Begin
    <2>2. k \in BlockNumber /\ from \in BlockNumber \cup {Unset}
      BY <2>1 DEF StartFrom, TypeOK, Waiting
    <2>3. /\ jobs' = {JobAt(k, FirstFetched(k, from))}
          /\ skipped' = skipped \cup OutOfWindow(k, from)
          /\ queue' = Tail(queue)
          /\ ~Stale(k)
          /\ UNCHANGED <<lastProcessedBlock, firstBlock, feedVars, slotVars>>
      BY <1>4 DEF Begin
    <2>4. OutOfWindow(k, from) \subseteq BlockNumber
      BY <2>2, SlotAssumption DEF OutOfWindow, BlockNumber
    <2>5. queue' \in Seq(Waiting)
      BY <1>4, <2>3, QueueTypes DEF Begin
    <2> HIDE DEF k, from
    <2>6. FirstFetched(k, from) \in BlockNumber /\ FirstFetched(k, from) <= k
      BY <2>2, FirstFetchedRange
    <2>7. jobs' \subseteq Job /\ OneJob'
      BY <2>2, <2>3, <2>6, JobAtType DEF OneJob
    <2>8. lastProcessedBlock # Unset => k > lastProcessedBlock
      BY <1>t, <2>2, <2>3 DEF Stale
    <2>9. JobInv'
      BY <2>2, <2>3, <2>6, <2>8, JobAtType DEF JobInv
    <2>10. TypeOK'
      BY <2>3, <2>4, <2>5, <2>7 DEF TypeOK, Job, Waiting
    <2>11. Forward
      BY <1>t, <2>3 DEF Forward
    <2>12. QED
      BY <2>7, <2>9, <2>10, <2>11
  <1>5. ASSUME NEW j \in jobs, HeaderFetched(j) \/ OwnHeader(j)
        PROVE  TypeOK' /\ OneJob' /\ JobInv' /\ Forward
    <2>1. /\ j.stage # "author" /\ HandleSlot(j)
          /\ UNCHANGED <<queue, feedVars, historyVars>>
      BY <1>5 DEF HeaderFetched, OwnHeader
    <2>2. /\ jobs' \subseteq Job /\ OneJob' /\ JobInv'
          /\ UNCHANGED <<lastSlot, totalProduced>>
          /\ lastProcessedBlock' \in BlockNumber \cup {Unset}
          /\ lastProcessedBlock # Unset => lastProcessedBlock' >= lastProcessedBlock
          /\ totalMissed' \in Nat /\ recentSlots' \in Seq(Entry)
          /\ openMiss' \in Run \cup {Unset} /\ missedCombos' \in Seq(Run)
      BY <2>1, HandleSlotEffect
    <2>3. TypeOK'
      BY <2>1, <2>2 DEF TypeOK, Job, Entry
    <2>4. QED
      BY <1>t, <2>2, <2>3 DEF Forward
  <1>6. ASSUME NEW j \in jobs, HeaderFails(j)
        PROVE  TypeOK' /\ OneJob' /\ JobInv' /\ Forward
    <2>1. /\ MoveOn(j) /\ skipped' = skipped \cup {j.at} /\ j.at \in BlockNumber
          /\ UNCHANGED <<queue, firstBlock, feedVars, slotVars>>
      BY <1>6 DEF HeaderFails, TypeOK
    <2>2. /\ jobs' \subseteq Job /\ OneJob'
          /\ lastProcessedBlock' \in BlockNumber \cup {Unset}
          /\ lastProcessedBlock # Unset => lastProcessedBlock' >= lastProcessedBlock
          /\ \A i \in jobs' : /\ i.stage # "author"
                              /\ i.at <= i.number
                              /\ lastProcessedBlock' # Unset => i.number > lastProcessedBlock'
      BY <2>1, MoveOnEffect
    <2>3. TypeOK' /\ JobInv'
      BY <2>1, <2>2 DEF TypeOK, Job, JobInv
    <2>4. QED
      BY <1>t, <2>1, <2>2, <2>3 DEF Forward
  <1>7. ASSUME NEW j \in jobs, AuthorAnswered(j)
        PROVE  TypeOK' /\ OneJob' /\ JobInv' /\ Forward
    <2>1. /\ MoveOn(j) /\ RecordProduce(j.at) /\ j.at \in Slotted /\ j.stage = "author"
          /\ UNCHANGED <<queue, totalMissed, skipped, feedVars>>
      BY <1>7 DEF AuthorAnswered, TypeOK, JobInv
    <2>2. /\ jobs' \subseteq Job /\ OneJob'
          /\ lastProcessedBlock' \in BlockNumber \cup {Unset}
          /\ lastProcessedBlock # Unset => lastProcessedBlock' >= lastProcessedBlock
          /\ \A i \in jobs' : /\ i.stage # "author"
                              /\ i.at <= i.number
                              /\ lastProcessedBlock' # Unset => i.number > lastProcessedBlock'
      BY <2>1, MoveOnEffect
    <2>3. /\ totalProduced' \in Nat /\ recentSlots' \in Seq(Entry)
          /\ openMiss' \in Run \cup {Unset} /\ missedCombos' \in Seq(Run)
          /\ lastSlot' = Slot[j.at] /\ lastSlot' \in Nat
          /\ firstBlock' \in BlockNumber \cup {Unset}
      BY <2>1, RecordProduceType
    <2>4. TypeOK' /\ JobInv'
      BY <2>1, <2>2, <2>3 DEF TypeOK, Job, JobInv, Entry
    <2>5. lastSlot # Unset => lastSlot' >= lastSlot
      BY <1>t, <2>1, <2>3 DEF JobInv
    <2>6. QED
      BY <2>2, <2>4, <2>5 DEF Forward
  <1>8. CASE UNCHANGED vars
    <2>1. TypeOK'
      BY <1>8 DEF vars, TypeOK
    <2>2. QED
      BY <1>0, <1>8, <2>1 DEF vars
  <1>9. QED
    BY <1>1, <1>2, <1>3, <1>4, <1>5, <1>6, <1>7, <1>8 DEF Next, Processing, JobSteps

\* Every variable keeps its type, and _queue runs one job at a time.
THEOREM SlotTypes == Spec => [](TypeOK /\ OneJob)
  BY InitSlots, NextSlots, PTL DEF Spec

\* Whoever drives and however far it lags, processing never goes back.
THEOREM SlotsNeverBackwards == Spec => NeverBackwards
  <1>1. TypeOK /\ OneJob /\ JobInv /\ [Next]_vars =>
          [/\ lastSlot # Unset => lastSlot' >= lastSlot
           /\ lastProcessedBlock # Unset => lastProcessedBlock' >= lastProcessedBlock]_vars
    BY NextSlots DEF Forward
  <1>2. QED
    BY <1>1, InitSlots, NextSlots, PTL DEF Spec, NeverBackwards

-----------------------------------------------------------------------------
(* Every slot is counted once *)

\* the slots of a history follow each other without a hole
InOrder(s) == \A i \in 2..Len(s) : s[i].slot = s[i - 1].slot + 1

LEMMA KeepNewestInOrder ==
    ASSUME NEW s \in Seq(Entry), InOrder(s), s # <<>>
    PROVE  LET t == KeepNewest(s, MaxHistory)
           IN  InOrder(t) /\ t # <<>> /\ t[Len(t)] = s[Len(s)]
  <1> DEFINE t == KeepNewest(s, MaxHistory)
             m == Len(s) - MaxHistory + 1
  <1>1. Len(s) \in Nat /\ Len(s) > 0 /\ MaxHistory \in Nat \ {0}
    BY SlotAssumption
  <1>2. CASE Len(s) > MaxHistory
    <2>1. t = SubSeq(s, m, Len(s))
      BY <1>2 DEF KeepNewest
    <2>2. m \in 1..Len(s)
      BY <1>1, <1>2
    <2>3. Len(t) = MaxHistory /\ \A i \in 1..MaxHistory : t[i] = s[m + i - 1]
      BY <1>1, <1>2, <2>1, <2>2, SubSeqProperties
    <2>4. t \in Seq(Entry)
      BY <1>1, KeepNewestType
    <2> HIDE DEF t
    <2>5. InOrder(t)
      <3> SUFFICES ASSUME NEW i \in 2..MaxHistory
                   PROVE  t[i].slot = t[i - 1].slot + 1
        BY <2>3 DEF InOrder
      <3>1. m + i - 1 \in 2..Len(s) /\ i \in 1..MaxHistory /\ i - 1 \in 1..MaxHistory
            /\ m + (i - 1) - 1 = (m + i - 1) - 1
        BY <1>1, <1>2
      <3> HIDE DEF m
      <3>2. t[i] = s[m + i - 1] /\ t[i - 1] = s[(m + i - 1) - 1]
        BY <2>3, <3>1
      <3>3. QED
        BY <3>1, <3>2 DEF InOrder
    <2>6. t[Len(t)] = s[Len(s)] /\ t # <<>>
      BY <1>1, <2>3, <2>4
    <2>7. QED
      BY <2>5, <2>6 DEF t
  <1>3. CASE ~(Len(s) > MaxHistory)
    BY <1>3 DEF KeepNewest
  <1>4. QED
    BY <1>2, <1>3

\* One more slot, after the last one
LEMMA AppendInOrder ==
    ASSUME NEW s \in Seq(Entry), InOrder(s), NEW e \in Entry,
           s # <<>> => e.slot = s[Len(s)].slot + 1
    PROVE  LET t == KeepNewest(Append(s, e), MaxHistory)
           IN  InOrder(t) /\ t # <<>> /\ t[Len(t)] = e
  <1> DEFINE u == Append(s, e)
  <1>1. /\ u \in Seq(Entry) /\ Len(u) = Len(s) + 1 /\ Len(s) \in Nat
        /\ u[Len(u)] = e /\ \A i \in 1..Len(s) : u[i] = s[i]
    OBVIOUS
  <1> HIDE DEF u
  <1>2. InOrder(u)
    <2> SUFFICES ASSUME NEW i \in 2..Len(u)
                 PROVE  u[i].slot = u[i - 1].slot + 1
      BY DEF InOrder
    <2>1. CASE i = Len(u)
      <3>1. Len(s) > 0 /\ i - 1 = Len(s)
        BY <1>1, <2>1
      <3>2. s # <<>>
        BY <3>1
      <3>3. QED
        BY <1>1, <2>1, <3>1, <3>2
    <2>2. CASE i # Len(u)
      <3>1. i \in 2..Len(s) /\ i \in 1..Len(s) /\ i - 1 \in 1..Len(s)
        BY <1>1, <2>2
      <3>2. QED
        BY <1>1, <3>1 DEF InOrder
    <2>3. QED
      BY <2>1, <2>2
  <1>3. u # <<>>
    BY <1>1
  <1>4. QED
    BY <1>1, <1>2, <1>3, KeepNewestInOrder DEF u

\* The misses of a gap, after the last slot
LEMMA MissesInOrder ==
    ASSUME TypeOK, InOrder(recentSlots), NEW lo \in Nat, NEW hi \in Nat, lo <= hi,
           RecordMisses(lo, hi), recentSlots # <<>>,
           recentSlots[Len(recentSlots)].slot + 1 = lo
    PROVE  /\ InOrder(recentSlots') /\ recentSlots' # <<>>
           /\ recentSlots'[Len(recentSlots')].slot = hi
           /\ totalMissed' = totalMissed + (hi - lo + 1)
  <1> DEFINE count == hi - lo + 1
             misses == [i \in 1..count |-> [slot |-> lo + i - 1, block |-> Unset]]
             s == recentSlots
             u == s \o misses
  <1>1. count \in Nat /\ count > 0
    OBVIOUS
  <1>2. misses \in Seq(Entry) /\ Len(misses) = count
    BY <1>1 DEF Entry
  <1>3. s \in Seq(Entry) /\ Len(s) \in Nat /\ Len(s) > 0
    BY DEF TypeOK, Entry
  <1>4. recentSlots' = KeepNewest(u, MaxHistory) /\ totalMissed' = totalMissed + count
    BY DEF RecordMisses
  <1>5. \A i \in 1..count : misses[i].slot = lo + i - 1
    OBVIOUS
  <1> HIDE DEF misses, count
  <1>6. /\ u \in Seq(Entry) /\ Len(u) = Len(s) + count
        /\ \A i \in 1..Len(u) : u[i] = IF i <= Len(s) THEN s[i] ELSE misses[i - Len(s)]
    BY <1>1, <1>2, <1>3, ConcatProperties
  <1> HIDE DEF u
  <1>7. \A i \in 1..Len(u) : i > Len(s) => u[i].slot = lo + (i - Len(s)) - 1
    BY <1>1, <1>3, <1>5, <1>6
  <1>8. InOrder(u)
    <2> SUFFICES ASSUME NEW i \in 2..Len(u)
                 PROVE  u[i].slot = u[i - 1].slot + 1
      BY DEF InOrder
    <2>0. i \in 1..Len(u) /\ i - 1 \in 1..Len(u) /\ i \in Nat
      BY <1>6, <1>3, <1>1
    <2>1. CASE i <= Len(s)
      <3>1. u[i] = s[i] /\ u[i - 1] = s[i - 1] /\ i \in 2..Len(s)
        BY <1>3, <1>6, <2>0, <2>1
      <3>2. QED
        BY <3>1 DEF InOrder
    <2>2. CASE i = Len(s) + 1
      <3>1. u[i].slot = lo
        BY <1>3, <1>7, <2>0, <2>2
      <3>2. u[i - 1] = s[Len(s)]
        BY <1>3, <1>6, <2>0, <2>2
      <3>3. QED
        BY <3>1, <3>2
    <2>3. CASE i > Len(s) + 1
      <3>1. u[i].slot = lo + (i - Len(s)) - 1
        <4>1. i \in 1..Len(u) /\ i > Len(s)
          BY <1>3, <2>0, <2>3
        <4>2. QED
          BY <1>7, <4>1
      <3>2. u[i - 1].slot = lo + ((i - 1) - Len(s)) - 1
        <4>1. i - 1 \in 1..Len(u) /\ i - 1 > Len(s)
          BY <1>3, <2>0, <2>3
        <4>2. QED
          BY <1>7, <4>1
      <3>3. QED
        BY <1>3, <2>0, <3>1, <3>2
    <2>4. QED
      BY <1>3, <2>0, <2>1, <2>2, <2>3
  <1>9. u # <<>> /\ u[Len(u)].slot = hi
    <2>1. Len(u) \in 1..Len(u) /\ Len(u) > Len(s)
      BY <1>1, <1>3, <1>6
    <2>2. u[Len(u)].slot = lo + (Len(u) - Len(s)) - 1
      BY <1>7, <2>1
    <2>3. lo + (Len(u) - Len(s)) - 1 = hi
      BY <1>3, <1>6 DEF count
    <2>4. QED
      BY <1>6, <2>1, <2>2, <2>3
  <1>10. QED
    BY <1>4, <1>6, <1>8, <1>9, KeepNewestInOrder DEF count

\* the last slot that is recorded
Reached == IF AwaitedBlocks = {} THEN lastSlot ELSE Slot[CHOOSE k \in AwaitedBlocks : TRUE] - 1

\* The strengthening of SlotsAccounted: the history ends with the last slot
\* that is recorded, and there is none before the first block.
Account ==
    /\ InOrder(recentSlots)
    /\ firstBlock = Unset <=> lastSlot = Unset
    /\ firstBlock = Unset => totalMissed = 0 /\ totalProduced = 0 /\ recentSlots = <<>>
    /\ firstBlock # Unset =>
          /\ firstBlock \in Slotted
          /\ recentSlots # <<>> /\ recentSlots[Len(recentSlots)].slot = Reached
          /\ totalMissed + totalProduced = Reached - Slot[firstBlock] + 1

LEMMA AccountIsAccounted == TypeOK /\ Account => SlotsAccounted
  BY DEF TypeOK, Account, InOrder, Reached, SlotsAccounted

LEMMA AwaitedIs ==
    ASSUME NEW j, jobs = {j}
    PROVE  AwaitedBlocks = IF j.stage = "author" THEN {j.at} ELSE {}
  BY DEF AwaitedBlocks

LEMMA InitAccount == Init => Account
  <1> SUFFICES ASSUME Init
               PROVE  Account
    OBVIOUS
  <1>1. recentSlots = <<>> /\ Len(recentSlots) = 0
    BY DEF Init
  <1>2. InOrder(recentSlots)
    BY <1>1 DEF InOrder
  <1>3. QED
    BY <1>1, <1>2 DEF Init, Account

\* A job that moves on awaits no author.
LEMMA MovedAwaitsNone ==
    ASSUME TypeOK, OneJob, JobInv, NEW j \in jobs, MoveOn(j)
    PROVE  AwaitedBlocks' = {}
  BY MoveOnEffect DEF AwaitedBlocks

LEMMA NextAccount ==
    TypeOK /\ OneJob /\ JobInv /\ Account /\ [Next]_vars => Account'
  <1> SUFFICES ASSUME TypeOK, OneJob, JobInv, Account, [Next]_vars
               PROVE  Account'
    OBVIOUS
  <1> USE DEF feedVars, queueVars, slotVars, historyVars
  <1>t. /\ lastSlot # Unset => lastSlot \in Nat
        /\ totalMissed \in Nat /\ totalProduced \in Nat
        /\ recentSlots \in Seq(Entry)
        /\ firstBlock # Unset => firstBlock \in Slotted
        /\ \A k \in BlockNumber : k \in Nat /\ k # Unset
        /\ \A k \in Slotted : k \in BlockNumber /\ Slot[k] \in Nat /\ Slot[k] # Unset
    BY NumberTypes DEF TypeOK, Entry, Account
  <1>0. UNCHANGED <<slotVars, firstBlock>> /\ AwaitedBlocks' = AwaitedBlocks => Account'
    BY DEF Account, Reached
  <1>j. \A j \in jobs : jobs = {j} /\ j.at \in BlockNumber
    BY DEF OneJob, TypeOK
  <1>1. ASSUME NEW d \in Node \cup {NoNode}, DriverChanges(d)
        PROVE  Account'
    BY <1>0, <1>1 DEF DriverChanges, AwaitedBlocks
  <1>2. ASSUME NEW n \in Node, NEW k \in BlockNumber, FinalizedHead(n, k)
        PROVE  Account'
    BY <1>0, <1>2 DEF FinalizedHead, AwaitedBlocks
  <1>3. ASSUME DropStale
        PROVE  Account'
    BY <1>0, <1>3 DEF DropStale, AwaitedBlocks
  <1>4. ASSUME Begin
        PROVE  Account'
    <2>1. jobs = {} /\ UNCHANGED <<slotVars, firstBlock>>
      BY <1>4 DEF Begin
    <2>2. \A j \in jobs' : j.stage # "author"
      BY <1>4 DEF Begin, JobAt
    <2>3. AwaitedBlocks' = AwaitedBlocks
      BY <2>1, <2>2 DEF AwaitedBlocks
    <2>4. QED
      BY <1>0, <2>1, <2>3
  <1>5. ASSUME NEW j \in jobs, HeaderFetched(j) \/ OwnHeader(j)
        PROVE  Account'
    <2> DEFINE s == Slot[j.at]
               waiting == [j EXCEPT !.stage = "author"]
    <2>1. j.stage # "author" /\ HandleSlot(j) /\ UNCHANGED firstBlock
      BY <1>5 DEF HeaderFetched, OwnHeader
    <2>2. AwaitedBlocks = {} /\ Reached = lastSlot
      BY <1>j, <1>t, <2>1, AwaitedIs DEF Reached
    <2>3. CASE PassedOver(s)
      <3>1. MoveOn(j) /\ UNCHANGED slotVars
        BY <2>1, <2>3 DEF HandleSlot
      <3>2. QED
        BY <1>0, <2>1, <2>2, <3>1, MovedAwaitsNone
    <2>4. CASE ~PassedOver(s)
      <3>0. s \in Nat /\ ~(lastSlot # Unset /\ s <= lastSlot)
        BY <1>j, <2>4, NumberTypes DEF PassedOver, Slotted
      <3>1. /\ jobs' = {waiting}
            /\ UNCHANGED <<lastSlot, totalProduced>>
            /\ IF lastSlot # Unset /\ s > lastSlot + 1
               THEN RecordMisses(lastSlot + 1, s - 1)
               ELSE UNCHANGED <<totalMissed, recentSlots, openMiss, missedCombos>>
        BY <1>j, <2>1, <2>4 DEF HandleSlot
      <3>2. waiting.stage = "author" /\ waiting.at = j.at
        BY DEF TypeOK
      <3>3. AwaitedBlocks' = {j.at}
        BY <3>1, <3>2 DEF AwaitedBlocks
      <3>4. Reached' = s - 1
        BY <3>3 DEF Reached
      <3> HIDE DEF s
      <3>5. CASE lastSlot = Unset
        BY <2>1, <3>1, <3>5 DEF Account
      <3>6. CASE lastSlot # Unset /\ s = lastSlot + 1
        BY <1>t, <2>1, <2>2, <3>0, <3>1, <3>4, <3>6 DEF Account
      <3>7. CASE lastSlot # Unset /\ s > lastSlot + 1
        <4>1. RecordMisses(lastSlot + 1, s - 1)
          BY <3>1, <3>7
        <4>2. /\ lastSlot + 1 \in Nat /\ s - 1 \in Nat /\ lastSlot + 1 <= s - 1
              /\ firstBlock # Unset
              /\ recentSlots # <<>> /\ recentSlots[Len(recentSlots)].slot + 1 = lastSlot + 1
          BY <1>t, <2>2, <3>0, <3>7 DEF Account
        <4>3. /\ InOrder(recentSlots') /\ recentSlots' # <<>>
              /\ recentSlots'[Len(recentSlots')].slot = s - 1
              /\ totalMissed' = totalMissed + ((s - 1) - (lastSlot + 1) + 1)
          BY <4>1, <4>2, MissesInOrder DEF Account
        <4>4. totalMissed' + totalProduced' = Reached' - Slot[firstBlock'] + 1
          <5>1. totalMissed + totalProduced = lastSlot - Slot[firstBlock] + 1
            BY <2>2, <4>2 DEF Account
          <5>2. Slot[firstBlock] \in Nat /\ firstBlock' = firstBlock /\ lastSlot \in Nat
            BY <1>t, <2>1, <3>7, <4>2
          <5>3. totalProduced' = totalProduced
            BY <3>1
          <5>4. totalMissed' + totalProduced = (s - 1) - Slot[firstBlock] + 1
            <6>1. /\ totalMissed \in Nat /\ totalProduced \in Nat /\ s \in Nat
                  /\ totalMissed' = totalMissed + ((s - 1) - (lastSlot + 1) + 1)
              BY <1>t, <3>0, <4>3
            <6>2. QED
              BY <5>1, <5>2, <6>1
          <5>5. QED
            BY <3>4, <5>2, <5>3, <5>4
        <4>5. QED
          BY <2>1, <3>1, <3>4, <3>7, <4>2, <4>3, <4>4 DEF Account
      <3>8. QED
        BY <1>t, <2>2, <3>0, <3>5, <3>6, <3>7 DEF s
    <2>5. QED
      BY <2>3, <2>4
  <1>6. ASSUME NEW j \in jobs, HeaderFails(j)
        PROVE  Account'
    <2>1. j.stage # "author" /\ MoveOn(j) /\ UNCHANGED <<slotVars, firstBlock>>
      BY <1>6 DEF HeaderFails
    <2>2. AwaitedBlocks = {} /\ AwaitedBlocks' = {}
      BY <1>j, <2>1, AwaitedIs, MovedAwaitsNone
    <2>3. QED
      BY <1>0, <2>1, <2>2
  <1>7. ASSUME NEW j \in jobs, AuthorAnswered(j)
        PROVE  Account'
    <2> DEFINE k == j.at
               e == [slot |-> Slot[k], block |-> k]
    <2>1. MoveOn(j) /\ RecordProduce(k) /\ j.stage = "author" /\ UNCHANGED totalMissed
      BY <1>7 DEF AuthorAnswered
    <2>2. AwaitedBlocks = {k} /\ Reached = Slot[k] - 1 /\ k \in Slotted
      BY <1>j, <2>1, AwaitedIs DEF Reached, JobInv
    <2>3. Reached' = lastSlot' /\ lastSlot' = Slot[k]
      BY <2>1, MovedAwaitsNone DEF Reached, RecordProduce
    <2>4. /\ recentSlots' = KeepNewest(Append(recentSlots, e), MaxHistory)
          /\ totalProduced' = totalProduced + 1
          /\ firstBlock' = IF firstBlock = Unset THEN k ELSE firstBlock
      BY <2>1 DEF RecordProduce
    <2>5. e \in Entry /\ e.slot = Slot[k]
      BY <1>t, <2>2 DEF Entry
    <2> HIDE DEF e, k
    <2>6. recentSlots # <<>> => e.slot = recentSlots[Len(recentSlots)].slot + 1
      BY <1>t, <2>2, <2>5 DEF Account
    <2>7. InOrder(recentSlots') /\ recentSlots' # <<>> /\ recentSlots'[Len(recentSlots')] = e
      BY <1>t, <2>4, <2>5, <2>6, AppendInOrder DEF Account
    <2>8. totalMissed' + totalProduced' = Reached' - Slot[firstBlock'] + 1
      <3>1. Slot[k] \in Nat /\ totalMissed \in Nat /\ totalProduced \in Nat
        BY <1>t, <2>2
      <3>2. totalMissed' = totalMissed /\ totalProduced' = totalProduced + 1 /\ Reached' = Slot[k]
        BY <2>1, <2>3, <2>4
      <3>3. CASE firstBlock = Unset
        <4>1. totalMissed = 0 /\ totalProduced = 0
          BY <3>3 DEF Account
        <4>2. firstBlock' = k
          BY <2>4, <3>3
        <4>3. QED
          BY <3>1, <3>2, <4>1, <4>2
      <3>4. CASE firstBlock # Unset
        <4>1. totalMissed + totalProduced = Slot[k] - 1 - Slot[firstBlock] + 1
          BY <2>2, <3>4 DEF Account
        <4>2. firstBlock' = firstBlock /\ Slot[firstBlock] \in Nat
          BY <1>t, <2>4, <3>4
        <4>3. QED
          BY <3>1, <3>2, <4>1, <4>2
      <3>5. QED
        BY <3>3, <3>4
    <2>9. firstBlock' # Unset /\ lastSlot' # Unset
      BY <1>t, <2>2, <2>3, <2>4
    <2>10. QED
      BY <1>t, <2>2, <2>3, <2>4, <2>5, <2>7, <2>8, <2>9 DEF Account
  <1>8. CASE UNCHANGED vars
    BY <1>0, <1>8 DEF vars, AwaitedBlocks
  <1>9. QED
    BY <1>1, <1>2, <1>3, <1>4, <1>5, <1>6, <1>7, <1>8 DEF Next, Processing, JobSteps

\* Every slot from the first recorded one on is counted exactly once, produced
\* or missed, and the history shows the last of them in order.
THEOREM SlotsAreAccounted == Spec => []SlotsAccounted
  BY InitSlots, NextSlots, InitAccount, NextAccount, AccountIsAccounted, PTL DEF Spec

-----------------------------------------------------------------------------
(* Misses are real *)

\* A capped list is a suffix.
LEMMA KeepNewestSuffix ==
    ASSUME NEW S, NEW s \in Seq(S), NEW cap \in Nat \ {0}
    PROVE  LET t == KeepNewest(s, cap)
           IN  /\ t \in Seq(S)
               /\ \E m \in Nat : Len(t) + m = Len(s) /\ \A i \in 1..Len(t) : t[i] = s[i + m]
  <1> DEFINE t == KeepNewest(s, cap)
             m == IF Len(s) > cap THEN Len(s) - cap ELSE 0
  <1>0. t \in Seq(S)
    BY KeepNewestType
  <1>1. Len(s) \in Nat /\ m \in Nat
    OBVIOUS
  <1>2. Len(t) + m = Len(s) /\ \A i \in 1..Len(t) : t[i] = s[i + m]
    <2>1. CASE Len(s) > cap
      <3>1. t = SubSeq(s, m + 1, Len(s)) /\ m + 1 \in Int /\ m = Len(s) - cap
        BY <1>1, <2>1 DEF KeepNewest
      <3>2. \A i \in (m + 1)..Len(s) : s[i] \in S
        BY <1>1
      <3> HIDE DEF t, m
      <3>3. Len(t) = cap /\ \A i \in 1..cap : t[i] = s[(m + 1) + i - 1]
        BY <1>1, <2>1, <3>1, <3>2, SubSeqProperties
      <3>4. QED
        BY <1>1, <3>1, <3>3
    <2>2. CASE ~(Len(s) > cap)
      <3>1. t = s /\ m = 0
        BY <2>2 DEF KeepNewest
      <3>2. \A i \in 1..Len(s) : i + 0 = i
        OBVIOUS
      <3> HIDE DEF t, m
      <3>3. QED
        BY <1>1, <3>1, <3>2
    <2>3. QED
      BY <2>1, <2>2
  <1> HIDE DEF t, m
  <1>3. QED
    BY <1>0, <1>1, <1>2 DEF t

\* every block up to Done has been dealt with
Done == IF jobs # {} THEN (CHOOSE j \in jobs : TRUE).at - 1
        ELSE IF lastProcessedBlock = Unset THEN 0 ELSE lastProcessedBlock

\* what MissesAreReal says of one entry
Labelled(e) ==
    IF e.block = Unset THEN \A k \in BlockNumber : Slot[k] = e.slot => k \in skipped
    ELSE e.slot = Slot[e.block]

\* The strengthening of MissesAreReal: the last recorded slot is of a block that
\* was dealt with and counted, and all blocks of later slots were skipped.
Cover ==
    /\ \A x \in skipped : x <= Done
    /\ jobs = {} /\ lastProcessedBlock = Unset => lastSlot = Unset
    /\ firstBlock = Unset <=> lastSlot = Unset
    /\ lastSlot # Unset =>
          /\ \E x \in Slotted \ skipped : firstBlock <= x /\ x <= Done /\ Slot[x] = lastSlot
          /\ \A x \in Slotted : x <= Done /\ Slot[x] > lastSlot => x \in skipped
    /\ firstBlock # Unset =>
          /\ firstBlock <= Done
          /\ totalProduced = Cardinality(SlotsOf((firstBlock..Done) \ skipped))
    /\ firstBlock = Unset => totalProduced = 0
    /\ \A i \in DOMAIN recentSlots : Labelled(recentSlots[i])

LEMMA DoneIs ==
    /\ \A j : jobs = {j} => Done = j.at - 1
    /\ jobs = {} => Done = IF lastProcessedBlock = Unset THEN 0 ELSE lastProcessedBlock
  BY DEF Done

LEMMA DoneType == TypeOK => Done \in Nat
  <1> SUFFICES ASSUME TypeOK
               PROVE  Done \in Nat
    OBVIOUS
  <1>1. CASE jobs # {}
    <2>1. (CHOOSE j \in jobs : TRUE) \in jobs
      BY <1>1
    <2>2. (CHOOSE j \in jobs : TRUE).at \in BlockNumber
      BY <2>1 DEF TypeOK
    <2>3. QED
      BY <1>1, <2>2, SlotAssumption DEF Done, BlockNumber
  <1>2. CASE jobs = {}
    BY <1>2, SlotAssumption DEF Done, TypeOK, BlockNumber
  <1>3. QED
    BY <1>1, <1>2

\* When a job moves on its block has been dealt with.
LEMMA MovedDone ==
    ASSUME TypeOK, OneJob, JobInv, NEW j \in jobs, MoveOn(j)
    PROVE  /\ Done = j.at - 1 /\ Done' = j.at
           /\ ~(jobs' = {} /\ lastProcessedBlock' = Unset)
  <1>1. jobs = {j} /\ j.at \in BlockNumber /\ j.number \in BlockNumber
    BY DEF OneJob, TypeOK
  <1>2. Done = j.at - 1
    BY <1>1, DoneIs
  <1>3. CASE jobs' = {} /\ lastProcessedBlock' = j.number /\ j.at = j.number
    BY <1>1, <1>2, <1>3, SlotAssumption DEF Done, BlockNumber
  <1>4. CASE jobs' = {JobAt(j.number, j.at + 1)}
    <2>1. (CHOOSE i \in jobs' : TRUE) = JobAt(j.number, j.at + 1)
      BY <1>4
    <2>2. JobAt(j.number, j.at + 1).at = j.at + 1
      BY DEF JobAt
    <2>3. Done' = (j.at + 1) - 1
      BY <1>4, <2>1, <2>2 DEF Done
    <2>4. QED
      BY <1>1, <1>2, <1>4, <2>3, SlotAssumption DEF BlockNumber
  <1>5. QED
    BY <1>3, <1>4, MoveOnEffect

LEMMA CoverIsReal == TypeOK /\ Cover => MissesAreReal
  <1> SUFFICES ASSUME TypeOK, Cover
               PROVE  MissesAreReal
    OBVIOUS
  <1>1. jobs = {} /\ firstBlock # Unset => Done = lastProcessedBlock
    BY DoneIs DEF Cover
  <1>2. QED
    BY <1>1 DEF Cover, MissesAreReal, Labelled

LEMMA InitCover == Init => Cover
  BY DEF Init, Cover, Labelled

\* Entries stay labelled when more blocks are skipped.
LEMMA StaysLabelled ==
    ASSUME NEW e, Labelled(e), skipped \subseteq skipped'
    PROVE  Labelled(e)'
  BY DEF Labelled

\* What a capped list keeps of labelled entries is labelled.
LEMMA NewestLabelled ==
    ASSUME NEW s \in Seq(Entry), \A i \in 1..Len(s) : Labelled(s[i])
    PROVE  LET t == KeepNewest(s, MaxHistory)
           IN  \A i \in DOMAIN t : Labelled(t[i])
  <1> DEFINE t == KeepNewest(s, MaxHistory)
  <1>1. t \in Seq(Entry)
        /\ \E m \in Nat : Len(t) + m = Len(s) /\ \A i \in 1..Len(t) : t[i] = s[i + m]
    BY SlotAssumption, KeepNewestSuffix
  <1> HIDE DEF t
  <1>2. PICK m \in Nat : Len(t) + m = Len(s) /\ \A i \in 1..Len(t) : t[i] = s[i + m]
    BY <1>1
  <1>3. DOMAIN t = 1..Len(t) /\ Len(t) \in Nat /\ Len(s) \in Nat
    BY <1>1
  <1>4. ASSUME NEW i \in 1..Len(t)
        PROVE  Labelled(t[i])
    <2>1. i + m \in 1..Len(s) /\ t[i] = s[i + m]
      BY <1>2, <1>3
    <2>2. QED
      BY <2>1
  <1>5. QED
    BY <1>3, <1>4 DEF t

\* Recording keeps the entries labelled.
LEMMA MissesLabelled ==
    ASSUME TypeOK, NEW lo \in Nat, NEW hi \in Nat, lo <= hi, RecordMisses(lo, hi),
           UNCHANGED skipped,
           \A i \in DOMAIN recentSlots : Labelled(recentSlots[i]),
           \A k \in Slotted : lo <= Slot[k] /\ Slot[k] <= hi => k \in skipped
    PROVE  \A i \in DOMAIN recentSlots' : Labelled(recentSlots'[i])
  <1> DEFINE count == hi - lo + 1
             misses == [i \in 1..count |-> [slot |-> lo + i - 1, block |-> Unset]]
             s == recentSlots
             u == s \o misses
  <1>1. count \in Nat /\ count > 0
    OBVIOUS
  <1>2. misses \in Seq(Entry) /\ Len(misses) = count
    BY <1>1 DEF Entry
  <1>3. s \in Seq(Entry) /\ Len(s) \in Nat
    BY DEF TypeOK, Entry
  <1>4. recentSlots' = KeepNewest(u, MaxHistory)
    BY DEF RecordMisses
  <1>5. \A i \in 1..count : Labelled(misses[i])
    <2> SUFFICES ASSUME NEW i \in 1..count, NEW k \in BlockNumber, Slot[k] = lo + i - 1
                 PROVE  k \in skipped
      BY DEF Labelled
    <2>1. lo <= Slot[k] /\ Slot[k] <= hi /\ k \in Slotted
      BY NumberTypes DEF Slotted
    <2>2. QED
      BY <2>1
  <1> HIDE DEF misses, count
  <1>6. /\ u \in Seq(Entry) /\ Len(u) = Len(s) + count
        /\ \A i \in 1..Len(u) : u[i] = IF i <= Len(s) THEN s[i] ELSE misses[i - Len(s)]
    BY <1>1, <1>2, <1>3, ConcatProperties
  <1>7. \A i \in 1..Len(s) : Labelled(s[i])
    BY <1>3
  <1> HIDE DEF u, s
  <1>8. \A i \in 1..Len(u) : Labelled(u[i])
    <2> SUFFICES ASSUME NEW i \in 1..Len(u)
                 PROVE  Labelled(u[i])
      OBVIOUS
    <2>1. CASE i <= Len(s)
      <3>1. i \in 1..Len(s)
        BY <1>3, <2>1
      <3>2. u[i] = s[i]
        BY <1>6, <2>1
      <3>3. QED
        BY <1>7, <3>1, <3>2
    <2>2. CASE ~(i <= Len(s))
      <3>1. i - Len(s) \in 1..count
        BY <1>1, <1>3, <1>6, <2>2
      <3>2. u[i] = misses[i - Len(s)]
        BY <1>6, <2>2
      <3>3. QED
        BY <1>5, <3>1, <3>2
    <2>3. QED
      BY <2>1, <2>2
  <1>9. QED
    BY <1>4, <1>6, <1>8, NewestLabelled

\* One more block adds its slot, if it has one.
LEMMA SlotsOfMore ==
    ASSUME NEW B, NEW k
    PROVE  SlotsOf(B \cup {k}) =
             IF Slot[k] = Unset THEN SlotsOf(B) ELSE SlotsOf(B) \cup {Slot[k]}
  BY DEF SlotsOf

\* The block after a range of blocks
LEMMA RangeMore ==
    ASSUME NEW first \in Nat, NEW k \in Nat, first <= k, NEW gone, k \notin gone
    PROVE  (first..k) \ gone = ((first..(k - 1)) \ gone) \cup {k}
  <1>1. first..k = (first..(k - 1)) \cup {k}
    OBVIOUS
  <1>2. QED
    BY <1>1

\* A header that is passed over adds nothing to the slots of the blocks dealt
\* with: it has no slot, or the one that was recorded last.
LEMMA CoverPassedOver ==
    ASSUME TypeOK, OneJob, JobInv, Cover, NEW j \in jobs,
           HandleSlot(j), UNCHANGED historyVars, PassedOver(Slot[j.at])
    PROVE  Cover'
  <1> DEFINE k == j.at
             old == (firstBlock..Done) \ skipped
  <1>1. MoveOn(j) /\ UNCHANGED <<slotVars, historyVars>>
    BY DEF HandleSlot
  <1>2. /\ Done = k - 1 /\ Done' = k
        /\ ~(jobs' = {} /\ lastProcessedBlock' = Unset)
    BY <1>1, MovedDone
  <1>3. /\ k \in BlockNumber /\ k \in Nat /\ k \notin skipped
        /\ \A x \in BlockNumber : x \in Nat
        /\ \A x \in Slotted : x \in BlockNumber /\ x \in Nat /\ Slot[x] \in Nat
        /\ skipped \subseteq BlockNumber
        /\ firstBlock # Unset => firstBlock \in Nat
        /\ lastSlot # Unset => lastSlot \in Nat
    <2>1. k \in BlockNumber /\ k \in Nat
      BY NumberTypes DEF TypeOK
    <2>2. k \notin skipped
      BY <1>2, <2>1 DEF Cover
    <2>3. QED
      BY <2>1, <2>2, NumberTypes DEF TypeOK
  <1>4. k \in Slotted => lastSlot # Unset /\ Slot[k] <= lastSlot
    BY DEF PassedOver, Slotted
  <1> HIDE DEF k
  <1>5. \A x \in skipped : x <= k
    BY <1>2, <1>3 DEF Cover
  <1>6. ASSUME lastSlot # Unset
        PROVE  /\ \E x \in Slotted \ skipped : firstBlock <= x /\ x <= k /\ Slot[x] = lastSlot
               /\ \A x \in Slotted : x <= k /\ Slot[x] > lastSlot => x \in skipped
    <2>1. PICK x \in Slotted \ skipped : firstBlock <= x /\ x <= Done /\ Slot[x] = lastSlot
      BY <1>6 DEF Cover
    <2>2. x <= k
      BY <1>2, <1>3, <2>1
    <2>3. ASSUME NEW y \in Slotted, y <= k, Slot[y] > lastSlot
          PROVE  y \in skipped
      <3>1. y # k
        BY <1>3, <1>4, <1>6, <2>3
      <3>2. y <= Done
        BY <1>2, <1>3, <2>3, <3>1
      <3>3. QED
        BY <1>6, <2>3, <3>2 DEF Cover
    <2>4. QED
      BY <2>1, <2>2, <2>3
  <1>7. ASSUME firstBlock # Unset
        PROVE  /\ firstBlock <= k
               /\ totalProduced = Cardinality(SlotsOf((firstBlock..k) \ skipped))
    <2>1. /\ firstBlock \in Nat /\ firstBlock <= Done
          /\ totalProduced = Cardinality(SlotsOf(old))
      BY <1>3, <1>7 DEF Cover
    <2>2. firstBlock <= k
      BY <1>2, <1>3, <2>1
    <2>3. (firstBlock..k) \ skipped = old \cup {k}
      BY <1>2, <1>3, <2>1, <2>2, RangeMore
    <2>4. SlotsOf(old \cup {k}) = SlotsOf(old)
      <3>1. CASE Slot[k] = Unset
        BY <3>1, SlotsOfMore
      <3>2. CASE Slot[k] # Unset
        <4>1. k \in Slotted /\ lastSlot # Unset /\ Slot[k] <= lastSlot
          BY <1>3, <1>4, <3>2 DEF Slotted
        <4>2. PICK x \in Slotted \ skipped : firstBlock <= x /\ x <= Done /\ Slot[x] = lastSlot
          BY <4>1 DEF Cover
        <4>3. x < k
          BY <1>2, <1>3, <4>2
        <4>4. Slot[x] <= Slot[k]
          BY <4>1, <4>2, <4>3, NumberTypes
        <4>5. Slot[x] = Slot[k]
          BY <1>3, <4>1, <4>2, <4>4
        <4>6. x \in old
          BY <1>2, <1>3, <2>1, <4>2
        <4>7. Slot[k] \in SlotsOf(old)
          BY <4>2, <4>5, <4>6 DEF SlotsOf, Slotted
        <4> HIDE DEF old
        <4>8. QED
          <5>1. SlotsOf(old \cup {k}) = SlotsOf(old) \cup {Slot[k]}
            BY <3>2, SlotsOfMore
          <5>2. SlotsOf(old) \cup {Slot[k]} = SlotsOf(old)
            BY <4>7
          <5>3. QED
            BY <5>1, <5>2
      <3>3. QED
        BY <3>1, <3>2
    <2> HIDE DEF old
    <2>5. QED
      BY <2>1, <2>2, <2>3, <2>4
  <1>8. \A i \in DOMAIN recentSlots' : Labelled(recentSlots[i])'
    BY <1>1, StaysLabelled DEF Cover, slotVars, historyVars
  <1>9. UNCHANGED <<skipped, firstBlock, lastSlot, totalProduced, recentSlots>>
    BY <1>1 DEF slotVars, historyVars
  <1>10. /\ firstBlock = Unset <=> lastSlot = Unset
         /\ firstBlock = Unset => totalProduced = 0
    BY DEF Cover
  <1>11. QED
    BY <1>2, <1>5, <1>6, <1>7, <1>8, <1>9, <1>10 DEF Cover

\* A header whose slot is new: the slots missed before it are of no block but a
\* skipped one.
LEMMA CoverHandled ==
    ASSUME TypeOK, OneJob, JobInv, Cover, NEW j \in jobs,
           HandleSlot(j), UNCHANGED historyVars, ~PassedOver(Slot[j.at])
    PROVE  Cover'
  <1> DEFINE s == Slot[j.at]
             waiting == [j EXCEPT !.stage = "author"]
  <1>1. /\ jobs = {j} /\ j.at \in BlockNumber /\ j.at \in Nat /\ Done = j.at - 1
        /\ lastSlot # Unset => lastSlot \in Nat
        /\ \A k \in Slotted : k \in Nat /\ Slot[k] \in Nat
    <2>1. jobs = {j} /\ j.at \in BlockNumber
      BY DEF OneJob, TypeOK
    <2>2. j.at \in Nat /\ \A k \in Slotted : k \in Nat /\ Slot[k] \in Nat
      BY <2>1, NumberTypes
    <2>3. Done = j.at - 1
      BY <2>1, DoneIs
    <2>4. lastSlot # Unset => lastSlot \in Nat
      BY DEF TypeOK
    <2>5. QED
      BY <2>1, <2>2, <2>3, <2>4
  <1>2. j.at \in Slotted /\ s \in Nat /\ ~(lastSlot # Unset /\ s <= lastSlot)
    BY <1>1 DEF PassedOver, Slotted
  <1>3. /\ jobs' = {waiting}
        /\ UNCHANGED <<lastSlot, totalProduced, lastProcessedBlock>>
        /\ IF lastSlot # Unset /\ s > lastSlot + 1
           THEN RecordMisses(lastSlot + 1, s - 1)
           ELSE UNCHANGED <<totalMissed, recentSlots, openMiss, missedCombos>>
    BY <1>1 DEF HandleSlot
  <1>4. Done' = Done
    <2>1. (CHOOSE i \in jobs' : TRUE) = waiting /\ waiting.at = j.at /\ jobs' # {}
      BY <1>3 DEF TypeOK
    <2>2. Done' = j.at - 1
      BY <2>1 DEF Done
    <2>3. QED
      BY <1>1, <2>2
  <1>5. \A i \in DOMAIN recentSlots' : Labelled(recentSlots'[i])
    <2>1. \A i \in DOMAIN recentSlots : Labelled(recentSlots[i])
      BY DEF Cover
    <2>2. CASE lastSlot # Unset /\ s > lastSlot + 1
      <3>1. RecordMisses(lastSlot + 1, s - 1)
        BY <1>3, <2>2
      <3>2. lastSlot + 1 \in Nat /\ s - 1 \in Nat /\ lastSlot + 1 <= s - 1 /\ UNCHANGED skipped
        BY <1>1, <1>2, <2>2 DEF historyVars
      <3>3. \A k \in Slotted : lastSlot + 1 <= Slot[k] /\ Slot[k] <= s - 1 => k \in skipped
        <4> SUFFICES ASSUME NEW k \in Slotted, lastSlot + 1 <= Slot[k], Slot[k] <= s - 1
                     PROVE  k \in skipped
          OBVIOUS
        <4>1. Slot[k] < s /\ Slot[k] > lastSlot
          BY <1>1, <1>2, <2>2
        <4>2. k < j.at
          BY <1>2, <4>1, NumberTypes
        <4>3. k <= Done
          BY <1>1, <4>2
        <4>4. QED
          BY <2>2, <4>1, <4>3 DEF Cover
      <3> HIDE DEF s
      <3>4. QED
        BY <2>1, <3>1, <3>2, <3>3, MissesLabelled
    <2>3. CASE ~(lastSlot # Unset /\ s > lastSlot + 1)
      BY <1>3, <2>1, <2>3
    <2>4. QED
      BY <2>2, <2>3
  <1>6. \A i \in DOMAIN recentSlots' : Labelled(recentSlots[i])'
    BY <1>5 DEF Labelled, historyVars
  <1> HIDE DEF waiting, s
  <1>7. jobs # {} /\ jobs' # {} /\ UNCHANGED <<skipped, firstBlock, lastSlot, totalProduced>>
    BY <1>3 DEF historyVars
  <1>8. QED
    BY <1>4, <1>6, <1>7 DEF Cover

LEMMA NextCover ==
    TypeOK /\ OneJob /\ JobInv /\ Cover /\ [Next]_vars => Cover'
  <1> SUFFICES ASSUME TypeOK, OneJob, JobInv, Cover, [Next]_vars
               PROVE  Cover'
    OBVIOUS
  <1> USE DEF feedVars, queueVars, slotVars, historyVars
  <1>t. /\ lastSlot # Unset => lastSlot \in Nat
        /\ totalProduced \in Nat /\ Done \in Nat
        /\ recentSlots \in Seq(Entry)
        /\ firstBlock # Unset => firstBlock \in BlockNumber
        /\ skipped \subseteq BlockNumber
        /\ \A k \in BlockNumber : k \in Nat /\ k # Unset
        /\ \A k \in Slotted : k \in BlockNumber /\ Slot[k] \in Nat /\ Slot[k] # Unset
    BY NumberTypes, DoneType DEF TypeOK, Entry, Slotted
  <1>0. UNCHANGED <<slotVars, historyVars, jobs, lastProcessedBlock>> => Cover'
    BY DEF Cover, Labelled, Done
  <1>j. \A j \in jobs : /\ jobs = {j} /\ j.at \in BlockNumber /\ Done = j.at - 1
    BY DoneIs DEF OneJob, TypeOK
  <1>1. ASSUME \/ \E d \in Node \cup {NoNode} : DriverChanges(d)
               \/ \E n \in Node, k \in BlockNumber : FinalizedHead(n, k)
               \/ DropStale \/ UNCHANGED vars
        PROVE  Cover'
    BY <1>0, <1>1 DEF DriverChanges, FinalizedHead, DropStale, vars
  <1>4. ASSUME Begin
        PROVE  Cover'
    <2> DEFINE k == Head(queue).number
               from == StartFrom(Head(queue).prev)
               f == FirstFetched(k, from)
               out == OutOfWindow(k, from)
    <2>1. Head(queue) \in Waiting
      BY <1>4, QueueTypes DEF Begin
    <2>2. k \in BlockNumber /\ from \in BlockNumber \cup {Unset}
      BY <2>1 DEF StartFrom, TypeOK, Waiting
    <2>3. /\ jobs = {} /\ jobs' = {JobAt(k, f)}
          /\ skipped' = skipped \cup out
          /\ ~Stale(k)
          /\ UNCHANGED <<lastProcessedBlock, firstBlock, slotVars>>
          /\ lastProcessedBlock # Unset => from = lastProcessedBlock
      BY <1>4 DEF Begin, StartFrom
    <2> HIDE DEF k, from
    <2>4. f \in BlockNumber /\ f <= k
      BY <2>2, FirstFetchedRange
    <2>5. Done' = f - 1
      <3>1. (CHOOSE i \in jobs' : TRUE) = JobAt(k, f) /\ JobAt(k, f).at = f
        BY <2>3 DEF JobAt
      <3>2. QED
        BY <2>3, <3>1 DEF Done
    <2>6. Done = IF lastProcessedBlock = Unset THEN 0 ELSE lastProcessedBlock
      BY <2>3, DoneIs
    <2>7. out \subseteq BlockNumber /\ \A x \in out : x <= f - 1
      BY <2>2, SlotAssumption DEF OutOfWindow, FirstFetched, BlockNumber
    <2>8. Done <= f - 1
      <3>1. CASE lastProcessedBlock = Unset
        BY <2>4, <2>6, <3>1, SlotAssumption DEF BlockNumber
      <3>2. CASE lastProcessedBlock # Unset
        BY <2>2, <2>3, <2>6, <3>2, SlotAssumption DEF FirstFetched, BlockNumber, Stale
      <3>3. QED
        BY <3>1, <3>2
    <2>9. lastProcessedBlock # Unset => \A x \in BlockNumber : Done < x /\ x <= f - 1 => x \in out
      <3> SUFFICES ASSUME lastProcessedBlock # Unset, NEW x \in BlockNumber, Done < x, x <= f - 1
                   PROVE  x \in out
        OBVIOUS
      <3>1. from = Done /\ from \in BlockNumber
        BY <2>2, <2>3, <2>6 DEF TypeOK
      <3>2. k > from
        BY <2>2, <2>3, <3>1, <2>6, SlotAssumption DEF Stale, BlockNumber
      <3>3. x \in (from + 1)..(k - 1) /\ x < k - FetchWindow
        BY <2>2, <2>4, <3>1, <3>2, SlotAssumption DEF FirstFetched, BlockNumber
      <3>4. QED
        BY <3>1, <3>3, SlotAssumption DEF OutOfWindow, BlockNumber
    <2> HIDE DEF f, out
    <2>n. f \in Nat /\ \A x \in BlockNumber : x \in Nat
      BY <2>4, <1>t
    <2>10. \A x \in skipped' : x <= Done'
      BY <1>t, <2>n, <2>3, <2>5, <2>7, <2>8 DEF Cover
    <2>11. lastSlot # Unset =>
             /\ lastProcessedBlock # Unset
             /\ \E x \in Slotted \ skipped' : firstBlock <= x /\ x <= Done' /\ Slot[x] = lastSlot
             /\ \A x \in Slotted : x <= Done' /\ Slot[x] > lastSlot => x \in skipped'
      <3> SUFFICES ASSUME lastSlot # Unset
                   PROVE  /\ lastProcessedBlock # Unset
                          /\ \E x \in Slotted \ skipped' :
                                firstBlock <= x /\ x <= Done' /\ Slot[x] = lastSlot
                          /\ \A x \in Slotted : x <= Done' /\ Slot[x] > lastSlot => x \in skipped'
        OBVIOUS
      <3>1. lastProcessedBlock # Unset
        BY <2>3 DEF Cover
      <3>2. PICK x \in Slotted \ skipped : firstBlock <= x /\ x <= Done /\ Slot[x] = lastSlot
        BY DEF Cover
      <3>3. \A y \in out : y > Done
        BY <2>2, <2>3, <2>6, <3>1, SlotAssumption DEF OutOfWindow, out, BlockNumber
      <3>4. x \notin skipped' /\ x <= Done'
        BY <1>t, <2>n, <2>3, <2>5, <2>7, <2>8, <3>2, <3>3
      <3>5. \A y \in Slotted : y <= Done' /\ Slot[y] > lastSlot => y \in skipped'
        <4> SUFFICES ASSUME NEW y \in Slotted, y <= f - 1, Slot[y] > lastSlot
                     PROVE  y \in skipped \cup out
          BY <2>3, <2>5
        <4>1. y <= Done => y \in skipped
          BY DEF Cover
        <4>2. QED
          BY <4>1, <3>1, <2>9, <2>n, <1>t
      <3>6. QED
        BY <3>1, <3>2, <3>4, <3>5
    <2>12. firstBlock # Unset =>
             /\ firstBlock <= Done'
             /\ totalProduced = Cardinality(SlotsOf((firstBlock..Done') \ skipped'))
      <3> SUFFICES ASSUME firstBlock # Unset
                   PROVE  /\ firstBlock <= Done'
                          /\ totalProduced = Cardinality(SlotsOf((firstBlock..Done') \ skipped'))
        OBVIOUS
      <3>1. firstBlock \in BlockNumber /\ firstBlock <= Done /\ lastProcessedBlock # Unset
        BY <1>t, <2>11 DEF Cover
      <3>2. \A y \in out : y > Done
        BY <2>2, <2>3, <2>6, <3>1, SlotAssumption DEF OutOfWindow, out, BlockNumber
      <3>3. (firstBlock..Done') \ skipped' = (firstBlock..Done) \ skipped
        <4>1. \A x \in firstBlock..(f - 1) : x > Done => x \in out
          BY <1>t, <2>4, <2>9, <2>n, <3>1, SlotAssumption DEF BlockNumber
        <4>2. \A x \in firstBlock..Done : x \in firstBlock..(f - 1) /\ x \notin out
          BY <1>t, <2>n, <2>8, <3>1, <3>2
        <4>3. \A x \in firstBlock..(f - 1) : x \notin out => x \in firstBlock..Done
          BY <1>t, <2>n, <3>1, <4>1
        <4>4. QED
          BY <2>3, <2>5, <4>2, <4>3
      <3>4. totalProduced = Cardinality(SlotsOf((firstBlock..Done) \ skipped))
        BY DEF Cover
      <3>5. firstBlock <= Done'
        BY <1>t, <2>n, <2>5, <2>8, <3>1
      <3>6. QED
        BY <3>3, <3>4, <3>5, Zenon
    <2>13. \A i \in DOMAIN recentSlots' : Labelled(recentSlots[i])'
      BY <2>3, StaysLabelled DEF Cover
    <2>14. QED
      BY <2>3, <2>10, <2>11, <2>12, <2>13 DEF Cover, Labelled
  <1>5. ASSUME NEW j \in jobs, HeaderFetched(j) \/ OwnHeader(j)
        PROVE  Cover'
    <2>1. HandleSlot(j) /\ UNCHANGED historyVars
      BY <1>5 DEF HeaderFetched, OwnHeader
    <2>2. CASE PassedOver(Slot[j.at])
      BY <2>1, <2>2, CoverPassedOver
    <2>3. CASE ~PassedOver(Slot[j.at])
      BY <2>1, <2>3, CoverHandled
    <2>4. QED
      BY <2>2, <2>3
  <1>6. ASSUME NEW j \in jobs, HeaderFails(j)
        PROVE  Cover'
    <2>1. /\ MoveOn(j) /\ skipped' = skipped \cup {j.at}
          /\ UNCHANGED <<firstBlock, slotVars>>
      BY <1>6 DEF HeaderFails
    <2>2. /\ Done = j.at - 1 /\ Done' = j.at
          /\ ~(jobs' = {} /\ lastProcessedBlock' = Unset)
      BY <2>1, MovedDone
    <2>3. j.at \in BlockNumber /\ j.at \in Nat
      BY <1>j, <1>t
    <2>4. \A x \in skipped' : x <= Done'
      BY <1>t, <2>1, <2>2, <2>3 DEF Cover
    <2>5. lastSlot # Unset =>
             /\ \E x \in Slotted \ skipped' : firstBlock <= x /\ x <= Done' /\ Slot[x] = lastSlot
             /\ \A x \in Slotted : x <= Done' /\ Slot[x] > lastSlot => x \in skipped'
      <3> SUFFICES ASSUME lastSlot # Unset
                   PROVE  /\ \E x \in Slotted \ skipped' :
                                firstBlock <= x /\ x <= Done' /\ Slot[x] = lastSlot
                          /\ \A x \in Slotted : x <= Done' /\ Slot[x] > lastSlot => x \in skipped'
        OBVIOUS
      <3>1. PICK x \in Slotted \ skipped : firstBlock <= x /\ x <= Done /\ Slot[x] = lastSlot
        BY DEF Cover
      <3>2. x \notin skipped' /\ x <= Done'
        BY <1>t, <2>1, <2>2, <2>3, <3>1
      <3>3. \A y \in BlockNumber : y <= Done' => y <= Done \/ y = j.at
        BY <1>t, <2>2, <2>3
      <3>4. \A y \in Slotted : y <= Done' /\ Slot[y] > lastSlot => y \in skipped'
        BY <1>t, <2>1, <3>3 DEF Cover
      <3>5. QED
        BY <3>1, <3>2, <3>4
    <2>6. firstBlock # Unset =>
             /\ firstBlock <= Done'
             /\ totalProduced = Cardinality(SlotsOf((firstBlock..Done') \ skipped'))
      <3> SUFFICES ASSUME firstBlock # Unset
                   PROVE  /\ firstBlock <= Done'
                          /\ totalProduced = Cardinality(SlotsOf((firstBlock..Done') \ skipped'))
        OBVIOUS
      <3>1. firstBlock \in Nat /\ firstBlock <= Done
        BY <1>t DEF Cover
      <3>2. totalProduced = Cardinality(SlotsOf((firstBlock..Done) \ skipped))
        BY DEF Cover
      <3>3. (firstBlock..Done') \ skipped' = (firstBlock..Done) \ skipped
        BY <2>1, <2>2, <2>3, <3>1
      <3>4. firstBlock <= Done'
        BY <2>2, <2>3, <3>1
      <3>5. QED
        BY <3>2, <3>3, <3>4, Zenon
    <2>7. \A i \in DOMAIN recentSlots' : Labelled(recentSlots[i])'
      BY <2>1, StaysLabelled DEF Cover
    <2>8. QED
      BY <2>1, <2>2, <2>4, <2>5, <2>6, <2>7 DEF Cover, Labelled
  <1>7. ASSUME NEW j \in jobs, AuthorAnswered(j)
        PROVE  Cover'
    <2> DEFINE k == j.at
               e == [slot |-> Slot[k], block |-> k]
    <2>1. /\ MoveOn(j) /\ RecordProduce(k) /\ UNCHANGED skipped
      BY <1>7 DEF AuthorAnswered
    <2>2. /\ Done = k - 1 /\ Done' = k
          /\ ~(jobs' = {} /\ lastProcessedBlock' = Unset)
      BY <2>1, MovedDone
    <2>3. /\ k \in BlockNumber /\ k \in Slotted /\ k \in Nat /\ k # Unset /\ k \notin skipped
          /\ Slot[k] \in Nat /\ Slot[k] # Unset
          /\ lastSlot # Unset => Slot[k] > lastSlot
      <3>1. k \in BlockNumber /\ k \in Slotted /\ (lastSlot # Unset => Slot[k] > lastSlot)
        BY <1>7, <1>j DEF AuthorAnswered, JobInv
      <3>2. k \in Nat /\ k # Unset /\ Slot[k] \in Nat /\ Slot[k] # Unset
        BY <1>t, <3>1
      <3>3. k \notin skipped
        BY <2>2, <3>2 DEF Cover
      <3>4. QED
        BY <3>1, <3>2, <3>3
    <2>4. /\ recentSlots' = KeepNewest(Append(recentSlots, e), MaxHistory)
          /\ totalProduced' = totalProduced + 1 /\ lastSlot' = Slot[k]
          /\ firstBlock' = IF firstBlock = Unset THEN k ELSE firstBlock
      BY <2>1 DEF RecordProduce
    <2>5. \A i \in DOMAIN recentSlots' : Labelled(recentSlots[i])'
      <3>1. e \in Entry /\ Labelled(e)
        BY <2>3 DEF Entry, Labelled
      <3>2. \A i \in DOMAIN recentSlots : Labelled(recentSlots[i])
        BY DEF Cover
      <3> HIDE DEF e
      <3>3. /\ Append(recentSlots, e) \in Seq(Entry)
            /\ \A i \in 1..Len(Append(recentSlots, e)) : Labelled(Append(recentSlots, e)[i])
        BY <1>t, <3>1, <3>2
      <3>4. \A i \in DOMAIN recentSlots' : Labelled(recentSlots'[i])
        BY <2>4, <3>3, NewestLabelled
      <3>5. QED
        BY <2>1, <3>4 DEF Labelled
    <2> HIDE DEF k
    <2>6. /\ \A x \in skipped' : x <= Done'
          /\ \A x \in Slotted : x <= Done' => Slot[x] <= Slot[k]
      <3>1. \A x \in Slotted : x <= k => Slot[x] <= Slot[k]
        BY <1>t, <2>3, NumberTypes
      <3>2. QED
        BY <1>t, <2>1, <2>2, <2>3, <3>1 DEF Cover
    <2>7. \A x \in Slotted : x <= Done' /\ Slot[x] > lastSlot' => x \in skipped'
      BY <1>t, <2>3, <2>4, <2>6
    <2>8. /\ firstBlock' # Unset /\ lastSlot' # Unset /\ firstBlock' <= k
          /\ totalProduced' = Cardinality(SlotsOf((firstBlock'..k) \ skipped))
      <3>1. CASE firstBlock = Unset
        <4>1. firstBlock' = k /\ totalProduced = 0 /\ totalProduced' = 1
          BY <2>4, <3>1 DEF Cover
        <4>2. (firstBlock'..k) \ skipped = {k}
          BY <2>3, <4>1
        <4>3. SlotsOf({k}) = {Slot[k]}
          BY <2>3 DEF SlotsOf
        <4>4. Cardinality({Slot[k]}) = 1
          BY FS_Singleton
        <4>5. totalProduced' = Cardinality(SlotsOf((firstBlock'..k) \ skipped))
          BY <4>1, <4>2, <4>3, <4>4, Zenon
        <4>6. QED
          BY <2>3, <2>4, <4>1, <4>5
      <3>2. CASE firstBlock # Unset
        <4> DEFINE old == (firstBlock..Done) \ skipped
                   S == SlotsOf(old)
        <4>1. firstBlock' = firstBlock /\ firstBlock \in Nat /\ firstBlock <= Done /\ lastSlot # Unset
          BY <1>t, <2>4, <3>2 DEF Cover
        <4>2. totalProduced = Cardinality(S)
          BY <3>2 DEF Cover
        <4>3. \A v \in S : v \in Nat /\ v <= lastSlot
          <5> SUFFICES ASSUME NEW x \in old, Slot[x] # Unset
                       PROVE  Slot[x] \in Nat /\ Slot[x] <= lastSlot
            BY DEF SlotsOf
          <5>1. x \in Slotted /\ x <= Done
            <6>1. x \in Int /\ 1 <= x /\ x <= k /\ x <= Done
              <7>1. firstBlock \in BlockNumber
                BY <1>t, <3>2
              <7>2. firstBlock >= 1
                BY <7>1, NumberTypes
              <7>3. QED
                BY <2>2, <2>3, <4>1, <7>2
            <6>2. x \in BlockNumber
              BY <2>3, <6>1, NumberTypes
            <6>3. QED
              BY <6>1, <6>2 DEF Slotted
          <5>2. ~(Slot[x] > lastSlot)
            BY <4>1, <5>1 DEF Cover
          <5>3. QED
            BY <1>t, <4>1, <5>1, <5>2
        <4>4. IsFiniteSet(S) /\ Slot[k] \notin S
          <5>1. IsFiniteSet(0..lastSlot)
            BY <1>t, <4>1, FS_Interval
          <5>2. S \subseteq 0..lastSlot /\ Slot[k] \notin S
            <6> HIDE DEF S
            <6>1. QED
              BY <1>t, <2>3, <4>1, <4>3
          <5> HIDE DEF S
          <5>3. QED
            BY <5>1, <5>2, FS_Subset
        <4>5. (firstBlock'..k) \ skipped = old \cup {k} /\ firstBlock' <= k
          <5>1. firstBlock <= k
            BY <2>2, <2>3, <4>1
          <5>2. (firstBlock..k) \ skipped = old \cup {k}
            BY <2>2, <2>3, <4>1, <5>1, RangeMore
          <5>3. QED
            BY <4>1, <5>1, <5>2
        <4> HIDE DEF old
        <4>6. SlotsOf(old \cup {k}) = S \cup {Slot[k]}
          BY <2>3, SlotsOfMore
        <4> HIDE DEF S
        <4>7. Cardinality(S \cup {Slot[k]}) = Cardinality(S) + 1
          BY <4>4, FS_AddElement
        <4>8. totalProduced' = Cardinality(SlotsOf((firstBlock'..k) \ skipped))
          BY <2>4, <4>2, <4>5, <4>6, <4>7, Zenon
        <4>9. QED
          BY <2>3, <2>4, <3>2, <4>1, <4>5, <4>8
      <3>3. QED
        BY <3>1, <3>2
    <2>9. /\ \E x \in Slotted \ skipped' : firstBlock' <= x /\ x <= Done' /\ Slot[x] = lastSlot'
          /\ firstBlock' <= Done'
          /\ totalProduced' = Cardinality(SlotsOf((firstBlock'..Done') \ skipped'))
      <3>1. skipped' = skipped /\ Done' = k
        BY <2>1, <2>2
      <3>2. \E x \in Slotted \ skipped' : firstBlock' <= x /\ x <= Done' /\ Slot[x] = lastSlot'
        BY <2>3, <2>4, <2>8, <3>1
      <3>3. QED
        BY <2>8, <3>1, <3>2
    <2>10. QED
      BY <2>2, <2>5, <2>6, <2>7, <2>8, <2>9 DEF Cover
  <1>9. QED
    BY <1>1, <1>4, <1>5, <1>6, <1>7 DEF Next, Processing, JobSteps

\* No finalized block's slot is reported as missed and none is counted twice:
\* every slot of the blocks from the first recorded to the last processed one
\* that were not skipped counts as produced, once, on chains where blocks share
\* slots too.
THEOREM MissesReal == Spec => []MissesAreReal
  BY InitSlots, NextSlots, InitCover, NextCover, CoverIsReal, PTL DEF Spec

-----------------------------------------------------------------------------
(* Runs of missed slots *)

\* s is the slot of a block up to done that is not among the skipped ones, gone
Edge(s, done, gone) == \E x \in Slotted \ gone : x <= done /\ Slot[x] = s

\* c is a run of missed slots between two produced ones
WholeRun(c, done, gone) ==
    /\ c.length >= 2
    /\ Edge(c.start - 1, done, gone) /\ Edge(c.start + c.length, done, gone)
    /\ \A s \in c.start..(c.start + c.length - 1) :
          \A x \in Slotted \ gone : Slot[x] # s

\* The strengthening of CombosMaximal: the runs that were reported start below the
\* last recorded slot, so that the next one is new; a run is open only while the
\* author of the block that ends it is awaited, and it starts after the last
\* recorded slot.
ComboInv ==
    /\ missedCombos # <<>> => lastSlot # Unset
    /\ \A i \in 1..Len(missedCombos) :
          WholeRun(missedCombos[i], Done, skipped) /\ missedCombos[i].start < lastSlot
    /\ \A i, k \in 1..Len(missedCombos) : i < k => missedCombos[i].start < missedCombos[k].start
    /\ openMiss # Unset =>
          /\ lastSlot # Unset /\ openMiss.start = lastSlot + 1
          /\ \E j \in jobs : j.stage = "author" /\ openMiss.start + openMiss.length = Slot[j.at]

\* Whole runs between recorded slots are what CombosMaximal asks for.
LEMMA ComboIsMaximal == TypeOK /\ ComboInv => CombosMaximal
  <1> SUFFICES ASSUME TypeOK, ComboInv
               PROVE  CombosMaximal
    OBVIOUS
  <1>1. DOMAIN missedCombos = 1..Len(missedCombos)
    BY DEF TypeOK
  <1>2. /\ \A s : Edge(s, Done, skipped) => s \in SeenSlots
        /\ \A s : (\A x \in Slotted \ skipped : Slot[x] # s) => s \notin SeenSlots
    BY DEF Edge, SeenSlots, SlotsOf, Slotted
  <1>3. QED
    BY <1>1, <1>2 DEF ComboInv, WholeRun, CombosMaximal

\* No run has been reported at the start.
LEMMA InitCombos == Init => ComboInv
  BY DEF Init, ComboInv

\* What was dealt with stays dealt with, and only later blocks are skipped, once
\* a slot has been recorded.
LEMMA DealtWithKept ==
    ASSUME TypeOK, OneJob, JobInv, Cover, [Next]_vars, lastSlot # Unset
    PROVE  /\ Done \in Nat /\ Done' \in Nat /\ Done <= Done'
           /\ skipped \subseteq skipped'
           /\ \A x \in skipped' \ skipped : x > Done
  <1> USE DEF feedVars, queueVars, slotVars, historyVars
  <1>t. /\ Done \in Nat
        /\ \A k \in BlockNumber : k \in Nat /\ k # Unset
    BY NumberTypes, DoneType
  <1>d. Done' \in Nat
    <2>1. TypeOK'
      BY NextSlots
    <2>2. (TypeOK => Done \in Nat)'
      BY DoneType, PTL
    <2>3. QED
      BY <2>1, <2>2
  <1> DEFINE Goal == /\ Done <= Done' /\ skipped \subseteq skipped'
                     /\ \A x \in skipped' \ skipped : x > Done
  <1>j. \A j \in jobs : /\ jobs = {j} /\ j.at \in BlockNumber /\ Done = j.at - 1
    BY DoneIs DEF OneJob, TypeOK
  <1>1. ASSUME \/ \E d \in Node \cup {NoNode} : DriverChanges(d)
               \/ \E n \in Node, k \in BlockNumber : FinalizedHead(n, k)
               \/ DropStale \/ UNCHANGED vars
        PROVE  Goal
    <2>1. UNCHANGED <<historyVars, jobs, lastProcessedBlock>>
      BY <1>1 DEF DriverChanges, FinalizedHead, DropStale, vars
    <2>2. Done' = Done
      BY <2>1 DEF Done
    <2>3. QED
      BY <1>t, <2>1, <2>2
  <1>4. ASSUME Begin
        PROVE  Goal
    <2> DEFINE k == Head(queue).number
               from == StartFrom(Head(queue).prev)
               f == FirstFetched(k, from)
               out == OutOfWindow(k, from)
    <2>1. Head(queue) \in Waiting
      BY <1>4, QueueTypes DEF Begin
    <2>2. k \in BlockNumber /\ from \in BlockNumber \cup {Unset}
      BY <2>1 DEF StartFrom, TypeOK, Waiting
    <2>3. /\ jobs = {} /\ jobs' = {JobAt(k, f)}
          /\ skipped' = skipped \cup out
          /\ ~Stale(k)
          /\ lastProcessedBlock # Unset => from = lastProcessedBlock
      BY <1>4 DEF Begin, StartFrom
    <2> HIDE DEF k, from
    <2>4. f \in BlockNumber /\ f <= k
      BY <2>2, FirstFetchedRange
    <2>5. Done' = f - 1
      <3>1. (CHOOSE i \in jobs' : TRUE) = JobAt(k, f) /\ JobAt(k, f).at = f
        BY <2>3 DEF JobAt
      <3>2. QED
        BY <2>3, <3>1 DEF Done
    <2>6. lastProcessedBlock # Unset /\ Done = lastProcessedBlock
      BY <2>3, DoneIs DEF Cover
    <2>7. Done <= f - 1
      BY <2>2, <2>3, <2>6, SlotAssumption DEF FirstFetched, BlockNumber, Stale
    <2>8. \A y \in out : y > Done
      BY <2>2, <2>3, <2>6, SlotAssumption DEF OutOfWindow, BlockNumber
    <2> HIDE DEF f, out
    <2>9. QED
      BY <2>3, <2>5, <2>7, <2>8
  <1>5. ASSUME NEW j \in jobs, HeaderFetched(j) \/ OwnHeader(j)
        PROVE  Goal
    <2>1. HandleSlot(j) /\ UNCHANGED historyVars
      BY <1>5 DEF HeaderFetched, OwnHeader
    <2>2. Done <= Done'
      <3>1. CASE MoveOn(j)
        BY <3>1, <1>t, <1>d, <1>j, MovedDone
      <3>2. CASE jobs' = (jobs \ {j}) \cup {[j EXCEPT !.stage = "author"]}
        <4> DEFINE waiting == [j EXCEPT !.stage = "author"]
        <4>1. jobs' = {waiting} /\ waiting.at = j.at
          BY <1>j, <3>2 DEF TypeOK
        <4> HIDE DEF waiting
        <4>2. (CHOOSE i \in jobs' : TRUE) = waiting /\ jobs' # {}
          BY <4>1
        <4>3. Done' = j.at - 1
          BY <4>1, <4>2 DEF Done
        <4>4. QED
          BY <1>t, <1>j, <4>3
      <3>3. QED
        BY <2>1, <3>1, <3>2 DEF HandleSlot
    <2>3. QED
      BY <2>1, <2>2
  <1>6. ASSUME NEW j \in jobs, HeaderFails(j)
        PROVE  Goal
    <2>1. MoveOn(j) /\ skipped' = skipped \cup {j.at}
      BY <1>6 DEF HeaderFails
    <2>2. Done = j.at - 1 /\ Done' = j.at
      BY <2>1, MovedDone
    <2>3. j.at \in Nat
      BY <1>j, <1>t
    <2>4. QED
      BY <2>1, <2>2, <2>3
  <1>7. ASSUME NEW j \in jobs, AuthorAnswered(j)
        PROVE  Goal
    <2>1. MoveOn(j) /\ UNCHANGED skipped
      BY <1>7 DEF AuthorAnswered
    <2>2. Done = j.at - 1 /\ Done' = j.at
      BY <2>1, MovedDone
    <2>3. j.at \in Nat
      BY <1>j, <1>t
    <2>4. QED
      BY <2>1, <2>2, <2>3
  <1>8. Goal
    BY <1>1, <1>4, <1>5, <1>6, <1>7 DEF Next, Processing, JobSteps
  <1>9. QED
    BY <1>t, <1>d, <1>8

\* A step leaves the edges and the runs between them as they are.
LEMMA RunsStayWhole ==
    ASSUME TypeOK, OneJob, JobInv, Cover, [Next]_vars, lastSlot # Unset
    PROVE  /\ \A s : Edge(s, Done, skipped) => Edge(s, Done', skipped')
           /\ \A c : WholeRun(c, Done, skipped) => WholeRun(c, Done', skipped')
  <1>1. /\ Done \in Nat /\ Done' \in Nat /\ Done <= Done'
        /\ skipped \subseteq skipped'
        /\ \A x \in skipped' \ skipped : x > Done
    BY DealtWithKept
  <1>2. \A x \in Slotted : x \in Nat
    BY NumberTypes
  <1>3. \A s : Edge(s, Done, skipped) => Edge(s, Done', skipped')
    <2> SUFFICES ASSUME NEW s, Edge(s, Done, skipped)
                 PROVE  Edge(s, Done', skipped')
      OBVIOUS
    <2>1. PICK x \in Slotted \ skipped : x <= Done /\ Slot[x] = s
      BY DEF Edge
    <2>2. x \notin skipped' /\ x <= Done'
      BY <1>1, <1>2, <2>1
    <2>3. QED
      BY <2>1, <2>2 DEF Edge
  <1>4. QED
    BY <1>1, <1>3 DEF WholeRun

LEMMA NextCombos ==
    TypeOK /\ OneJob /\ JobInv /\ Cover /\ ComboInv /\ [Next]_vars => ComboInv'
  <1> SUFFICES ASSUME TypeOK, OneJob, JobInv, Cover, ComboInv, [Next]_vars
               PROVE  ComboInv'
    OBVIOUS
  <1> USE DEF feedVars, queueVars, slotVars, historyVars
  <1>t. /\ lastSlot # Unset => lastSlot \in Nat
        /\ missedCombos \in Seq(Run) /\ openMiss \in Run \cup {Unset}
        /\ Done \in Nat
        /\ \A k \in BlockNumber : k \in Nat /\ k # Unset
        /\ \A k \in Slotted : k \in BlockNumber /\ Slot[k] \in Nat /\ Slot[k] # Unset
    BY NumberTypes, DoneType DEF TypeOK, Slotted
  <1>w. lastSlot # Unset => \A c : WholeRun(c, Done, skipped) => WholeRun(c, Done', skipped')
    BY RunsStayWhole
  <1>j. \A j \in jobs : /\ jobs = {j} /\ j.at \in BlockNumber /\ Done = j.at - 1
                        /\ j.stage # "author" => openMiss = Unset
    BY DoneIs DEF OneJob, TypeOK, ComboInv
  <1> DEFINE Reported ==
               /\ missedCombos # <<>> => lastSlot # Unset
               /\ \A i \in 1..Len(missedCombos) :
                     WholeRun(missedCombos[i], Done, skipped) /\ missedCombos[i].start < lastSlot
               /\ \A i, k \in 1..Len(missedCombos) :
                     i < k => missedCombos[i].start < missedCombos[k].start
  <1>k. ASSUME UNCHANGED <<missedCombos, lastSlot>>
        PROVE  Reported'
    <2>1. CASE missedCombos = <<>>
      BY <2>1, <1>k, EmptySeq
    <2>2. CASE missedCombos # <<>>
      <3>1. lastSlot # Unset
        BY <2>2 DEF ComboInv
      <3>2. \A i \in 1..Len(missedCombos) : WholeRun(missedCombos[i], Done', skipped')
        BY <3>1, <1>w DEF ComboInv
      <3>3. QED
        BY <3>1, <3>2, <1>k DEF ComboInv
    <2>3. QED
      BY <2>1, <2>2
  <1>1. ASSUME \/ \E d \in Node \cup {NoNode} : DriverChanges(d)
               \/ \E n \in Node, k \in BlockNumber : FinalizedHead(n, k)
               \/ DropStale \/ UNCHANGED vars
        PROVE  ComboInv'
    <2>1. UNCHANGED <<slotVars, jobs>>
      BY <1>1 DEF DriverChanges, FinalizedHead, DropStale, vars
    <2>2. Reported'
      BY <2>1, <1>k
    <2>3. QED
      BY <2>1, <2>2 DEF ComboInv
  <1>4. ASSUME Begin
        PROVE  ComboInv'
    <2>1. openMiss = Unset /\ UNCHANGED slotVars
      BY <1>4 DEF Begin, ComboInv
    <2>2. Reported'
      BY <2>1, <1>k
    <2>3. QED
      BY <2>1, <2>2 DEF ComboInv
  <1>5. ASSUME NEW j \in jobs, HeaderFetched(j) \/ OwnHeader(j)
        PROVE  ComboInv'
    <2> DEFINE s == Slot[j.at]
               waiting == [j EXCEPT !.stage = "author"]
    <2>1. HandleSlot(j) /\ j.stage # "author"
      BY <1>5 DEF HeaderFetched, OwnHeader
    <2>2. openMiss = Unset /\ s \in Nat \cup {Unset}
      BY <2>1, <1>j, NumberTypes
    <2>3. CASE UNCHANGED <<lastSlot, openMiss, missedCombos>>
      <3>1. Reported'
        BY <2>3, <1>k
      <3>2. QED
        BY <3>1, <2>2, <2>3 DEF ComboInv
    <2>4. CASE /\ jobs' = (jobs \ {j}) \cup {waiting}
               /\ lastSlot # Unset /\ s # Unset /\ s > lastSlot + 1 /\ UNCHANGED lastSlot
               /\ RecordMisses(lastSlot + 1, s - 1)
      <3>1. missedCombos' = missedCombos
        BY <2>2, <2>4 DEF RecordMisses, CombosWith
      <3>2. Reported'
        BY <3>1, <2>4, <1>k
      <3>3. openMiss' = [start |-> lastSlot + 1, length |-> (s - 1) - (lastSlot + 1) + 1]
        BY <2>2, <2>4 DEF RecordMisses
      <3>4. openMiss'.start = lastSlot + 1 /\ openMiss'.start + openMiss'.length = s
        BY <3>3, <2>2, <2>4, <1>t
      <3>5. waiting \in jobs' /\ waiting.stage = "author" /\ waiting.at = j.at
        BY <2>4 DEF TypeOK
      <3> HIDE DEF waiting
      <3>6. QED
        BY <3>2, <3>4, <3>5, <2>4 DEF ComboInv
    <2>5. QED
      BY <2>1, <2>3, <2>4 DEF HandleSlot, PassedOver
  <1>6. ASSUME NEW j \in jobs, HeaderFails(j)
        PROVE  ComboInv'
    <2>1. openMiss = Unset /\ UNCHANGED slotVars
      BY <1>6, <1>j DEF HeaderFails
    <2>2. Reported'
      BY <2>1, <1>k
    <2>3. QED
      BY <2>1, <2>2 DEF ComboInv
  <1>7. ASSUME NEW j \in jobs, AuthorAnswered(j)
        PROVE  ComboInv'
    <2> DEFINE k == j.at
               all == Append(missedCombos, openMiss)
    <2>1. /\ MoveOn(j) /\ RecordProduce(k) /\ UNCHANGED skipped /\ j.stage = "author"
      BY <1>7 DEF AuthorAnswered
    <2>2. /\ openMiss' = Unset /\ lastSlot' = Slot[k] /\ missedCombos' = CombosWith(openMiss)
      BY <2>1 DEF RecordProduce
    <2>3. /\ k \in Slotted /\ k \in BlockNumber /\ Slot[k] \in Nat /\ Slot[k] # Unset
          /\ lastSlot # Unset => lastSlot < Slot[k]
      BY <2>1, <1>j, <1>t DEF JobInv
    <2>4. \A i \in 1..Len(missedCombos) :
             /\ missedCombos[i] \in Run /\ WholeRun(missedCombos[i], Done', skipped')
             /\ missedCombos[i].start < lastSlot /\ lastSlot \in Nat
             /\ missedCombos[i].start < Slot[k]
      <3> SUFFICES ASSUME NEW i \in 1..Len(missedCombos)
                   PROVE  /\ missedCombos[i] \in Run /\ WholeRun(missedCombos[i], Done', skipped')
                          /\ missedCombos[i].start < lastSlot /\ lastSlot \in Nat
                          /\ missedCombos[i].start < Slot[k]
        OBVIOUS
      <3>1. missedCombos # <<>>
        BY EmptySeq
      <3>2. lastSlot # Unset /\ lastSlot \in Nat /\ lastSlot < Slot[k]
        BY <3>1, <2>3, <1>t DEF ComboInv
      <3>3. missedCombos[i] \in Run /\ missedCombos[i].start \in Nat
        <4>1. missedCombos[i] \in Run
          BY <1>t
        <4>2. QED
          BY <4>1 DEF Run
      <3>4. missedCombos[i].start < lastSlot /\ WholeRun(missedCombos[i], Done, skipped)
        BY DEF ComboInv
      <3>5. QED
        BY <3>2, <3>3, <3>4, <2>3, <1>w
    <2>5. CASE missedCombos' = missedCombos
      BY <2>2, <2>3, <2>4, <2>5 DEF ComboInv
    <2>6. CASE openMiss # Unset /\ openMiss.length >= 2
      <3>1. /\ openMiss \in Run /\ lastSlot \in Nat /\ openMiss.start = lastSlot + 1
            /\ openMiss.start \in Nat /\ openMiss.length \in Nat
            /\ openMiss.start + openMiss.length = Slot[k]
        BY <2>6, <1>j, <1>t DEF ComboInv, Run
      <3>2. WholeRun(openMiss, Done', skipped')
        <4>1. /\ Done = k - 1 /\ Done' = k /\ k \notin skipped' /\ skipped' = skipped
              /\ \A x \in Slotted : Slot[x] < Slot[k] => x < k
          <5>1. Done = k - 1 /\ Done' = k /\ skipped' = skipped
            BY <2>1, MovedDone
          <5>2. k \notin skipped
            BY <5>1, <2>3, <1>t DEF Cover
          <5>3. \A x \in Slotted : Slot[x] < Slot[k] => x < k
            BY <2>3, NumberTypes
          <5>4. QED
            BY <5>1, <5>2, <5>3
        <4>2. Edge(openMiss.start - 1, Done', skipped')
          <5>1. lastSlot # Unset
            BY <2>6 DEF ComboInv
          <5>2. Edge(lastSlot, Done, skipped)
            BY <5>1 DEF Cover, Edge
          <5>3. Edge(lastSlot, Done', skipped')
            BY <5>1, <5>2, RunsStayWhole
          <5>4. openMiss.start - 1 = lastSlot
            BY <3>1
          <5>5. QED
            BY <5>3, <5>4
        <4>3. Edge(openMiss.start + openMiss.length, Done', skipped')
          BY <2>3, <3>1, <4>1, <1>t DEF Edge
        <4>4. ASSUME NEW s \in openMiss.start..(openMiss.start + openMiss.length - 1),
                     NEW x \in Slotted \ skipped', Slot[x] = s
              PROVE  FALSE
          <5>1. lastSlot < Slot[x] /\ Slot[x] < Slot[k]
            BY <3>1, <4>4, <2>3
          <5>2. x <= Done
            BY <4>1, <5>1, <2>3, <1>t
          <5>3. lastSlot # Unset
            BY <2>6 DEF ComboInv
          <5>4. x \in skipped
            BY <1>t, <3>1, <5>1, <5>2, <5>3 DEF Cover
          <5>5. QED
            BY <4>1, <4>4, <5>4
        <4>5. QED
          BY <2>6, <4>2, <4>3, <4>4 DEF WholeRun
      <3>3. /\ all \in Seq(Run) /\ Len(all) = Len(missedCombos) + 1
            /\ \A i \in 1..Len(all) :
                  IF i <= Len(missedCombos) THEN all[i] = missedCombos[i] ELSE all[i] = openMiss
        BY <1>t, <3>1
      <3>4. \A i \in 1..Len(all) : WholeRun(all[i], Done', skipped') /\ all[i].start < Slot[k]
        <4> SUFFICES ASSUME NEW i \in 1..Len(all)
                     PROVE  WholeRun(all[i], Done', skipped') /\ all[i].start < Slot[k]
          OBVIOUS
        <4>1. CASE i <= Len(missedCombos)
          BY <2>4, <3>3, <4>1
        <4>2. CASE ~(i <= Len(missedCombos))
          BY <2>6, <3>1, <3>2, <3>3, <4>2
        <4>3. QED
          BY <4>1, <4>2
      <3>5. \A i, m \in 1..Len(all) : i < m => all[i].start < all[m].start
        <4> SUFFICES ASSUME NEW i \in 1..Len(all), NEW m \in 1..Len(all), i < m
                     PROVE  all[i].start < all[m].start
          OBVIOUS
        <4>1. i \in 1..Len(missedCombos) /\ all[i] = missedCombos[i]
          BY <3>3, <1>t
        <4>2. CASE m <= Len(missedCombos)
          BY <3>3, <4>1, <4>2 DEF ComboInv
        <4>3. CASE ~(m <= Len(missedCombos))
          <5>1. all[m].start = lastSlot + 1
            BY <3>1, <3>3, <4>3
          <5>2. all[i].start < lastSlot /\ all[i].start \in Nat
            BY <2>4, <4>1 DEF Run
          <5>3. QED
            BY <3>1, <5>1, <5>2
        <4>4. QED
          BY <4>2, <4>3
      <3> HIDE DEF all
      <3>6. missedCombos' = KeepNewest(all, MaxCombos)
        BY <2>2, <2>6 DEF CombosWith, all
      <3>7. PICK m \in Nat : /\ Len(missedCombos') + m = Len(all)
                             /\ \A i \in 1..Len(missedCombos') : missedCombos'[i] = all[i + m]
        <4>1. MaxCombos \in Nat \ {0} /\ all \in Seq(Run)
          BY <3>3, SlotAssumption
        <4>2. LET t == KeepNewest(all, MaxCombos)
              IN  \E m \in Nat : Len(t) + m = Len(all) /\ \A i \in 1..Len(t) : t[i] = all[i + m]
          BY <4>1, KeepNewestSuffix
        <4>3. QED
          BY <3>6, <4>2
      <3>8. missedCombos' \in Seq(Run) /\ Len(missedCombos') \in Nat /\ Len(all) \in Nat
        BY <3>3, <3>6, SlotAssumption, KeepNewestType
      <3>9. \A i \in 1..Len(missedCombos') : i + m \in 1..Len(all)
        BY <3>7, <3>8
      <3>10. \A i \in 1..Len(missedCombos') :
                WholeRun(missedCombos'[i], Done', skipped') /\ missedCombos'[i].start < lastSlot'
        BY <2>2, <3>4, <3>7, <3>9
      <3>11. \A i, n \in 1..Len(missedCombos') :
                i < n => missedCombos'[i].start < missedCombos'[n].start
        <4> SUFFICES ASSUME NEW i \in 1..Len(missedCombos'), NEW n \in 1..Len(missedCombos'), i < n
                     PROVE  missedCombos'[i].start < missedCombos'[n].start
          OBVIOUS
        <4>1. i + m \in 1..Len(all) /\ n + m \in 1..Len(all) /\ i + m < n + m
          BY <3>8, <3>9
        <4>2. all[i + m].start < all[n + m].start
          BY <3>5, <4>1
        <4>3. QED
          BY <3>7, <4>2
      <3>12. QED
        BY <2>2, <2>3, <3>10, <3>11 DEF ComboInv
    <2>7. QED
      BY <2>2, <2>5, <2>6 DEF CombosWith
  <1>9. QED
    BY <1>1, <1>4, <1>5, <1>6, <1>7 DEF Next, Processing, JobSteps

\* Each combo is a whole run of consecutive missed slots with a produced slot on
\* either side, and is reported once, however long the list of combos is.
THEOREM CombosAreWhole == Spec => []CombosMaximal
  BY InitSlots, NextSlots, InitCover, NextCover, InitCombos, NextCombos, ComboIsMaximal, PTL DEF Spec

=============================================================================
