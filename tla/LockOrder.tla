------------------------------ MODULE LockOrder ------------------------------
(***************************************************************************)
(* The mutexes of the compute supervisor (supervisor/host.rs).  Any number *)
(* of tokio tasks run its routines at the same time; a routine is modelled *)
(* by the order in which it takes and drops the mutexes, and everything    *)
(* else it does is left to SlotPool.  tokio's Mutex is a fair one: waiters *)
(* are served in the order they came.                                      *)
(***************************************************************************)
EXTENDS Naturals, Sequences

CONSTANTS
    Task,       \* tokio tasks: sessions, invokes, maintenance, cancellation
    Routines    \* the routines they run, a subset of DOMAIN Script

Mutex == {"workers", "checkouts", "job_cancels", "occupancy", "metal", "mmap_gate"}

Take(m) == <<"take", m>>      \* m.lock().await
Try(m) == <<"try", m>>        \* timeout(.., m.lock()).await, going on without
Drop(m) == <<"drop", m>>      \* the guard goes out of scope
Brief(m) == <<Take(m), Drop(m)>>

-----------------------------------------------------------------------------
(* The routines *)

\* reconcile_slots, first block: orphan busy flags.
ClearOrphans == <<Take("checkouts"), Take("workers"), Drop("workers"), Drop("checkouts")>>

\* (mutant) the missing slots are looked up in the order of the first block.
FindMissing_Reversed ==
    <<Take("checkouts"), Take("workers"), Drop("workers"), Drop("checkouts")>>

\* reconcile_slots, last block: slots found in neither table, then respawned.
FindMissing ==
    <<Take("workers"), Take("checkouts"), Drop("checkouts"), Drop("workers")>>
        \o Brief("metal") \o Brief("workers")

\* reconcile_slots, second block: a stale checkout is reclaimed.
ReclaimStale ==
    Brief("checkouts") \o Brief("job_cancels") \o Brief("checkouts")
        \o Brief("job_cancels") \o Brief("workers") \o Brief("metal")
        \o Brief("workers")

SlotStatuses ==
    Brief("occupancy")
        \o <<Take("workers"), Take("checkouts"), Drop("checkouts"), Drop("workers")>>

RefreshOccupancy == Brief("workers") \o Brief("occupancy")

\* (mutant) the cancel table is guarded by a mutex nobody else knows.
CancelInvoke_Unlisted == Brief("cancels")

CancelInvoke == Brief("job_cancels")

\* invoke(): residency check, mmap gate, and a claim that fails, which clears
\* the cancel signal before the guard of `workers` goes out of scope.
Claim ==
    <<Try("workers"), Drop("workers"), Try("mmap_gate")>> \o Brief("occupancy")
        \o Brief("workers") \o Brief("checkouts")
        \o <<Take("workers"), Take("job_cancels"), Drop("job_cancels"),
             Drop("workers"), Drop("mmap_gate")>>

\* invoke_single: take the worker, mark the checkout, run, return the worker.
RunSingle ==
    <<Try("mmap_gate")>> \o Brief("workers") \o Brief("checkouts")
        \o Brief("checkouts") \o Brief("workers") \o <<Drop("mmap_gate")>>

\* (mutant) the checkouts of the siblings are cleared before the guard of
\* `workers` is dropped, but taken in front of it.
RestoreGroup_ClearFirst ==
    <<Take("checkouts"), Take("workers"), Take("metal"), Drop("metal"),
      Drop("workers"), Drop("checkouts")>>

\* invoke_tp: the siblings are spawned again under the guard of `workers`.
RestoreGroup ==
    <<Take("workers"), Take("metal"), Drop("metal"), Drop("workers")>>
        \o Brief("checkouts")

Script ==
    [clearOrphans |-> ClearOrphans, findMissing |-> FindMissing,
     reclaimStale |-> ReclaimStale, slotStatuses |-> SlotStatuses,
     refreshOccupancy |-> RefreshOccupancy, cancelInvoke |-> CancelInvoke,
     claim |-> Claim, runSingle |-> RunSingle, restoreGroup |-> RestoreGroup]

ASSUME LockOrderAssumption == Routines \subseteq DOMAIN Script

-----------------------------------------------------------------------------
(* Tasks and mutexes *)

VARIABLES
    rest,    \* what a task has still to do of its routine
    queue    \* per mutex: its owner, then the tasks waiting for it

lockVars == <<rest, queue>>

LockTypeOK ==
    /\ rest \in [Task -> Seq({"take", "try", "drop"} \X Mutex)]
    /\ queue \in [Mutex -> Seq(Task)]

LockInit ==
    /\ rest = [t \in Task |-> <<>>]
    /\ queue = [m \in Mutex |-> <<>>]

Listed(t, m) == \E i \in DOMAIN queue[m] : queue[m][i] = t
Owns(t, m) == queue[m] # <<>> /\ Head(queue[m]) = t
WaitsFor(t, m) == Listed(t, m) /\ ~Owns(t, m)
Waiting(t) == \E m \in Mutex : WaitsFor(t, m)

Begin(t) ==
    /\ rest[t] = <<>>
    /\ \E r \in Routines : rest' = [rest EXCEPT ![t] = Script[r]]
    /\ UNCHANGED queue

NextStep(t, op, m) == rest[t] # <<>> /\ Head(rest[t]) = <<op, m>>

Without(q, i) == [k \in 1..(Len(q) - 1) |-> IF k < i THEN q[k] ELSE q[k + 1]]
Advance(t) == rest' = [rest EXCEPT ![t] = Tail(@)]

\* lock() is called: the task owns the mutex at once when nobody has it.
Request(t, m) ==
    /\ NextStep(t, "take", m) \/ NextStep(t, "try", m)
    /\ ~Listed(t, m)
    /\ queue' = [queue EXCEPT ![m] = Append(@, t)]
    /\ UNCHANGED rest

Granted(t, m) ==
    /\ NextStep(t, "take", m) \/ NextStep(t, "try", m)
    /\ Owns(t, m)
    /\ Advance(t) /\ UNCHANGED queue

\* The timeout of a bounded lock(): the task leaves the queue, goes on without.
GiveUp(t, m) ==
    /\ NextStep(t, "try", m) /\ WaitsFor(t, m)
    /\ \E i \in DOMAIN queue[m] :
          queue[m][i] = t /\ queue' = [queue EXCEPT ![m] = Without(@, i)]
    /\ Advance(t)

Release(t, m) ==
    /\ NextStep(t, "drop", m)
    /\ queue' = [queue EXCEPT ![m] = IF Owns(t, m) THEN Tail(@) ELSE @]
    /\ Advance(t)

Run(t) ==
    \E m \in Mutex : Request(t, m) \/ Granted(t, m) \/ GiveUp(t, m) \/ Release(t, m)

LockNext == \E t \in Task : Begin(t) \/ Run(t)

LockSpec == LockInit /\ [][LockNext]_lockVars

\* Every task is scheduled; an idle one need not begin anything.
FairLockSpec == LockSpec /\ \A t \in Task : WF_lockVars(Run(t))

-----------------------------------------------------------------------------
(* Properties *)

\* "Safe to call from the heartbeat path under load" (reconcile_slots): no
\* tasks wait for one another in a circle.
Bounded(t) == rest[t] # <<>> /\ Head(rest[t])[1] = "try"

NoDeadlock ==
    \A S \in (SUBSET Task) \ {{}} :
        \E t \in S : \/ Bounded(t)
                     \/ \A m \in Mutex : WaitsFor(t, m) => Head(queue[m]) \notin S

\* Every wait for a mutex ends.
EveryWaitEnds == \A t \in Task : Waiting(t) ~> ~Waiting(t)
=============================================================================
