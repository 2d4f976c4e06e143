---------------------------- MODULE ForkLifecycle ----------------------------
(***************************************************************************)
(* What the monitor promises of the forks of a chain, without callbacks,   *)
(* headers or a tree.  A fork is detected at a height where none is        *)
(* unresolved; its row is written later, or lost by a failing statement;   *)
(* it is unresolved until its height is final; its rows are closed only    *)
(* then, those written late by a later head.  ForkMonitor implements this. *)
(***************************************************************************)
EXTENDS Integers

CONSTANTS
    Height,     \* block numbers
    Detection   \* names for detections

VARIABLES
    final,       \* the highest final height
    unresolved,  \* heights with an unresolved fork
    detected,    \* forks detected since startup
    unwritten,   \* per height: the detections whose row is not written yet
    rows         \* per height: how many rows are open, how many resolved

vars == <<final, unresolved, detected, unwritten, rows>>

Init ==
    /\ final = 0
    /\ unresolved = {}
    /\ detected = 0
    /\ unwritten = [h \in Height |-> {}]
    /\ rows = [h \in Height |-> [open |-> 0, resolved |-> 0]]

\* without a database no row will be written
Detect(d, h) ==
    /\ h \notin unresolved
    /\ unresolved' = unresolved \cup {h}
    /\ detected' = detected + 1
    /\ \/ unwritten' = [unwritten EXCEPT ![h] = @ \cup {d}]
       \/ UNCHANGED unwritten
    /\ UNCHANGED <<final, rows>>

WriteRow(d, h) ==
    /\ d \in unwritten[h]
    /\ unwritten' = [unwritten EXCEPT ![h] = @ \ {d}]
    /\ \/ rows' = [rows EXCEPT ![h].open = @ + 1]
       \/ UNCHANGED rows
    /\ UNCHANGED <<final, unresolved, detected>>

\* Finality reaches k, or a node that lags reports k again.
Finalize(k) ==
    /\ final' = IF k > final THEN k ELSE final
    /\ unresolved' = {h \in unresolved : h > k}
    /\ UNCHANGED <<detected, unwritten, rows>>

\* The rows up to a final height are closed, and forks up to it forgotten.
Close(k) ==
    /\ k <= final
    /\ \/ rows' = [h \in Height |->
                     IF h <= k THEN [open |-> 0, resolved |-> rows[h].open + rows[h].resolved]
                     ELSE rows[h]]
       \/ UNCHANGED rows
    /\ unresolved' \subseteq unresolved
    /\ \A h \in unresolved \ unresolved' : h <= k
    /\ UNCHANGED <<final, detected, unwritten>>

Next ==
    \/ \E d \in Detection, h \in Height : Detect(d, h) \/ WriteRow(d, h)
    \/ \E k \in Height : Finalize(k) \/ Close(k)

Spec == Init /\ [][Next]_vars

-----------------------------------------------------------------------------

\* No row is resolved before its height is final.
ResolvedAreFinal == \A h \in Height : rows[h].resolved > 0 => h <= final

\* A fork leaves the unresolved ones only when its height is final, and a
\* resolved row stays so.
NeverTakenBack ==
    [][/\ \A h \in unresolved \ unresolved' : h <= final'
       /\ \A h \in Height : rows[h].resolved <= rows'[h].resolved]_vars

=============================================================================
