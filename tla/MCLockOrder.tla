----------------------------- MODULE MCLockOrder -----------------------------
(* Instances of LockOrder for TLC. *)
EXTENDS LockOrder

AllRoutines == DOMAIN Script
\* Everything but the first block of reconcile_slots.
OneOrder == DOMAIN Script \ {"clearOrphans"}
=============================================================================
