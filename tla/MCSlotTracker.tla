---------------------------- MODULE MCSlotTracker ----------------------------
(***************************************************************************)
(* A finalized chain for TLC: two gaps of really missed slots, one slot    *)
(* shared by two blocks, one block without a slot, and finality that can   *)
(* jump beyond the fetch window.                                           *)
(***************************************************************************)
EXTENDS SlotTracker

MCSlot == <<1, 4, 4, Unset, 7>>

=============================================================================
