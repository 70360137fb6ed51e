----------------------------- MODULE MCSlotPool -----------------------------
(* Instances of SlotPool for TLC. *)
EXTENDS SlotPool

CONSTANTS s1, s2, j1, j2, maint, warm

\* Pins: the first job, or the second job is pinned to slot s1.
PinFirst == [j \in Job |-> IF j = j1 THEN s1 ELSE None]
PinSecond == [j \in Job |-> IF j = j2 THEN s1 ELSE None]

\* One tensor-parallel group over both slots.
Pair == {{s1, s2}}
=============================================================================
