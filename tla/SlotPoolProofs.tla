--------------------------- MODULE SlotPoolProofs ---------------------------
(***************************************************************************)
(* Theorems about SlotPool, for any number of slots, jobs and tasks.       *)
(*                                                                         *)
(*   1. It stays well typed.                                               *)
(*   2. The two invariants that keep the machine from staying busy for     *)
(*      nothing: a checkout belongs to a task that will clear it           *)
(*      (CheckoutHeld), and an invoke that waits for its cancel signal can *)
(*      be reached by it (CancelsInFlight).                                *)
(*   3. It keeps the contract of InvokeContract: an invariant says where   *)
(*      an invoke stands in its attempt, and the steps are then mapped.    *)
(*                                                                         *)
(* The lemmas follow the disjuncts of Next: one per actor, with one step   *)
(* per action.                                                             *)
(***************************************************************************)
EXTENDS SlotPool, TLAPS

(***************************************************************************)
(* 1. Types                                                                *)
(***************************************************************************)

-----------------------------------------------------------------------------
(* Lemmas about the values *)

\* A worker that is fresh, lost, killed or has one field changed is a worker.
LEMMA WorkerTypes ==
    /\ Fresh \in Worker /\ Lost \in Worker
    /\ \A w \in Worker : Killed(w) \in Worker
    /\ \A w \in Worker \cup {None} : Killed(w) \in Worker \cup {None}
    /\ \A w \in Worker, b \in BOOLEAN :
         /\ [w EXCEPT !.busy = b] \in Worker
         /\ [w EXCEPT !.healthy = b] \in Worker
         /\ [w EXCEPT !.alive = b] \in Worker
BY DEF Worker, Fresh, Lost, Killed

\* The places a task can be at, the purposes of a spawn, and the verdicts.
LEMMA Labels ==
    /\ "idle" \in Label /\ "done" \in Label /\ "orphans" \in Label
    /\ "stale" \in Label /\ "reclaim" \in Label /\ "missing" \in Label
    /\ "respawn" \in Label /\ "reap" \in Label /\ "create" \in Label
    /\ "ping" \in Label /\ "prep" \in Label /\ "pick" \in Label
    /\ "claim" \in Label /\ "pin" \in Label /\ "pinKill" \in Label
    /\ "pinClaim" \in Label /\ "take" \in Label /\ "mark" \in Label
    /\ "run" \in Label /\ "clear" \in Label /\ "putBack" \in Label
    /\ "tp" \in Label /\ "tpMark" \in Label /\ "tpSpawn" \in Label
    /\ "tpRun" \in Label /\ "tpRestore" \in Label /\ "tpUndo" \in Label
    /\ "tpClear" \in Label /\ "verdict" \in Label /\ "evict" \in Label
    /\ "evictRpc" \in Label /\ "preload" \in Label /\ "warmTake" \in Label
    /\ "warmMark" \in Label /\ "warmRpc" \in Label
BY DEF Label, ReconcileStep, SpawnStep, JobStep, WarmStep

LEMMA Purposes ==
    /\ "missing" \in Purpose /\ "stale" \in Purpose /\ "claimMiss" \in Purpose
    /\ "pin" \in Purpose /\ "restore" \in Purpose /\ "preload" \in Purpose
BY DEF Purpose

LEMMA Verdicts ==
    /\ "none" \in Verdict /\ "ok" \in Verdict /\ "canceled" \in Verdict
    /\ "crash" \in Verdict /\ "error" \in Verdict
BY DEF Verdict

-----------------------------------------------------------------------------
(* Type correctness *)

\* A task that waits for a lock, a process or an answer for the sake of a slot
\* knows the slot.  The types alone are not inductive: a worker taken from the
\* map is a worker because its key is a slot.
Working == {"reclaim", "reap", "create", "ping", "pinKill", "take", "mark",
            "run", "clear", "putBack", "evictRpc", "warmTake", "warmMark",
            "warmRpc"}

AtSlot == \A t \in Task : pc[t] \in Working => at[t] \in Slot

\* The initial state is well typed, and no task works on a slot.
LEMMA InitTypes == Init => TypeOK /\ AtSlot
<1> SUFFICES ASSUME Init
             PROVE  TypeOK /\ AtSlot
  OBVIOUS
<1>1. TypeOK
  BY SlotPoolAssumption, WorkerTypes, Labels, Verdicts DEF Init, TypeOK, Task
<1>2. AtSlot
  BY DEF Init, AtSlot, Working
<1> QED
  BY <1>1, <1>2

\* The steps of reconcile_slots keep the types.
LEMMA ReconcileTypes ==
    ASSUME TypeOK, AtSlot, NEW t \in Task, Reconcile(t)
    PROVE  TypeOK'
<1> USE DEF TypeOK
<1>1. CASE ClearOrphanBusy(t)
  BY <1>1, WorkerTypes, Labels DEF ClearOrphanBusy, Goto, cancels, frame,
     invocation
<1>2. CASE Reclaim(t)
  <2>1. workers' \in [Slot -> Worker \cup {None}]
    BY <1>2, WorkerTypes DEF Reclaim, Idle
  <2>2. checkouts' \in [Slot -> Task \cup {None}]
    BY <1>2 DEF Reclaim
  <2>3. aged' \in SUBSET Slot
    BY <1>2 DEF Reclaim
  <2>4. pc' \in [Task -> Label]
    BY <1>2, Labels DEF Reclaim, Goto, BeginSpawn
  <2>5. at' \in [Task -> Slot \cup {None}]
    BY <1>2 DEF Reclaim, BeginSpawn
  <2>6. why' \in [Task -> Purpose \cup {None}]
    BY <1>2, Purposes DEF Reclaim, BeginSpawn
  <2> QED
    BY <1>2, <2>1, <2>2, <2>3, <2>4, <2>5, <2>6 DEF Reclaim, cancels,
       invocation
<1>3. CASE StaleDone(t)
  BY <1>3, Labels DEF StaleDone, Goto, tables, cancels, frame, invocation
<1>4. CASE FindMissing(t)
  <2>1. pc' \in [Task -> Label]
    BY <1>4, Labels DEF FindMissing, Goto, AfterReconcile
  <2>2. todo' \in [Task -> SUBSET Slot]
    BY <1>4 DEF FindMissing
  <2> QED
    BY <1>4, <2>1, <2>2 DEF FindMissing, tables, cancels, invocation
<1>5. ASSUME NEW s \in Slot, CancelStale(t, s)
      PROVE  TypeOK'
  BY <1>5, Labels DEF CancelStale, Goto, Notify, tables, invocation
<1>6. ASSUME NEW s \in Slot, RespawnMissing(t, s)
      PROVE  TypeOK'
  BY <1>6, Labels, Purposes DEF RespawnMissing, BeginSpawn, Goto, tables,
     cancels, invocation
<1> QED
  BY <1>1, <1>2, <1>3, <1>4, <1>5, <1>6 DEF Reconcile

\* The steps of spawn_worker keep the types.
LEMMA SpawnTypes ==
    ASSUME TypeOK, AtSlot, NEW t \in Task, Spawn(t)
    PROVE  TypeOK'
<1> USE DEF TypeOK
<1>1. CASE Reap(t)
  <2>1. workers' \in [Slot -> Worker \cup {None}]
    BY <1>1, WorkerTypes DEF Reap, ReapSlot
  <2>2. pc' \in [Task -> Label]
    BY <1>1, Labels DEF Reap, Goto
  <2>3. held' \in [Task -> Worker \cup {None}]
    BY <1>1, WorkerTypes DEF Reap, ReapSlot
  <2> QED
    BY <1>1, <2>1, <2>2, <2>3 DEF Reap, cancels, invocation
<1>2. CASE Create(t)
  BY <1>2, WorkerTypes, Labels DEF Create, Goto, tables, cancels, invocation
<1>3. CASE PingOk(t)
  <2> DEFINE w == [held[t] EXCEPT !.healthy = at[t] \notin Refused]
  <2>1. held[t] \in Worker
    BY <1>3 DEF PingOk
  <2>2. w \in Worker /\ [w EXCEPT !.healthy = TRUE] \in Worker
    BY <2>1, WorkerTypes
  <2> HIDE DEF w
  <2>3. \/ workers' = workers \/ workers' = [workers EXCEPT ![at[t]] = w]
        \/ workers' = [workers EXCEPT ![at[t]] = [w EXCEPT !.healthy = TRUE]]
    BY <1>3, Zenon DEF PingOk, w
  <2>4. \/ held' = [held EXCEPT ![t] = None]
        \/ held' = [held EXCEPT ![t] = w]
    BY <1>3 DEF PingOk, w
  <2>5. workers' \in [Slot -> Worker \cup {None}]
    BY <2>2, <2>3
  <2>6. held' \in [Task -> Worker \cup {None}]
    BY <2>2, <2>4
  <2>7. pc' \in [Task -> Label]
    BY <1>3, Labels DEF PingOk, Goto, GiveUp, NextMissing, AfterReconcile
  <2>8. at' \in [Task -> Slot \cup {None}] /\ todo' \in [Task -> SUBSET Slot]
    BY <1>3 DEF PingOk, GiveUp
  <2>9. why' \in [Task -> Purpose \cup {None}]
    BY <1>3 DEF PingOk
  <2>10. verdict' \in [Job -> Verdict]
    BY <1>3, Verdicts DEF PingOk, GiveUp
  <2> QED
    BY <1>3, <2>5, <2>6, <2>7, <2>8, <2>9, <2>10 DEF PingOk, cancels
<1>4. CASE PingFail(t)
  <2>1. workers' \in [Slot -> Worker \cup {None}]
    BY <1>4, WorkerTypes DEF PingFail
  <2>2. held' \in [Task -> Worker \cup {None}]
    <3> DEFINE others == [u \in Task |-> IF at[u] = at[t] THEN Killed(held[u])
                                                          ELSE held[u]]
    <3>1. others \in [Task -> Worker \cup {None}]
      BY WorkerTypes
    <3>2. held' = [others EXCEPT ![t] = None] \/ held' = [others EXCEPT ![t] = Lost]
      BY <1>4, Zenon DEF PingFail
    <3> HIDE DEF others
    <3> QED
      BY <3>1, <3>2, WorkerTypes
  <2>3. pc' \in [Task -> Label]
    BY <1>4, Labels DEF PingFail, Goto, GiveUp, NextMissing, AfterReconcile
  <2>4. at' \in [Task -> Slot \cup {None}] /\ todo' \in [Task -> SUBSET Slot]
    BY <1>4 DEF PingFail, GiveUp
  <2>5. why' \in [Task -> Purpose \cup {None}] /\ faults' \in Nat
    BY <1>4 DEF PingFail
  <2>6. verdict' \in [Job -> Verdict]
    BY <1>4, Verdicts DEF PingFail, GiveUp
  <2> QED
    BY <1>4, <2>1, <2>2, <2>3, <2>4, <2>5, <2>6 DEF PingFail, cancels
<1> QED
  BY <1>1, <1>2, <1>3, <1>4 DEF Spawn

\* The steps of return_worker keep the types.
LEMMA ReturnTypes ==
    ASSUME TypeOK, AtSlot, NEW t \in Task, Return(t)
    PROVE  TypeOK'
<1> USE DEF TypeOK
<1>1. CASE ClearCheckout(t)
  BY <1>1, Labels DEF ClearCheckout, Goto, cancels, frame, invocation
<1>2. CASE PutBack(t)
  <2>1. workers' \in [Slot -> Worker \cup {None}]
    BY <1>2, WorkerTypes DEF PutBack, Returned
  <2>2. pc' \in [Task -> Label]
    BY <1>2, Labels DEF PutBack, Goto
  <2>3. at' \in [Task -> Slot \cup {None}]
    BY <1>2 DEF PutBack
  <2>4. held' \in [Task -> Worker \cup {None}]
    BY <1>2, WorkerTypes DEF PutBack
  <2> QED
    BY <1>2, <2>1, <2>2, <2>3, <2>4 DEF PutBack, cancels, invocation
<1> QED
  BY <1>1, <1>2 DEF Return

\* The steps of invoke and invoke_image keep the types.
LEMMA InvokeTypes ==
    ASSUME TypeOK, AtSlot, NEW j \in Job, Invoke(j)
    PROVE  TypeOK'
<1> j \in Task
  BY DEF Task
<1> USE DEF TypeOK
<1>1. CASE Placing(j)
  BY <1>1, Labels DEF Placing, Goto, tables, cancels, frame, invocation
<1>2. CASE PlacingAborted(j)
  BY <1>2, Labels, Verdicts DEF PlacingAborted, GiveUp, Goto, tables
<1>3. CASE ListIdle(j)
  BY <1>3, Labels DEF ListIdle, Goto, tables, cancels, invocation
<1>4. CASE NoPlacement(j)
  BY <1>4, Labels, Verdicts DEF NoPlacement, GiveUp, Goto, tables, cancels
<1>5. CASE Claim(j)
  <2>1. PICK s \in todo[j] : \E p \in Placements(j, s) : Claim(j)!(s)!(p)
    BY <1>5 DEF Claim
  <2>2. PICK p \in Placements(j, s) : Claim(j)!(s)!(p)
    BY <2>1
  <2>3. s \in Slot /\ p \in SUBSET Slot
    BY <2>2
  <2>4. workers' \in [Slot -> Worker \cup {None}]
    <3>1. CASE workers' = workers
      BY <3>1
    <3>2. CASE /\ \A r \in p : Idle(r)
               /\ workers' = [r \in Slot |-> IF r \in p
                                THEN [workers[r] EXCEPT !.busy = TRUE]
                                ELSE workers[r]]
      BY <3>2, WorkerTypes DEF Idle
    <3> QED
      BY <2>2, <3>1, <3>2
  <2>5. pc' \in [Task -> Label]
    BY <2>2, Labels DEF Goto, BeginSpawn, GiveUp
  <2>6. at' \in [Task -> Slot \cup {None}]
    BY <2>2, <2>3 DEF BeginSpawn, GiveUp
  <2>7. why' \in [Task -> Purpose \cup {None}]
    BY <2>2, Purposes DEF BeginSpawn
  <2>8. todo' \in [Task -> SUBSET Slot] /\ registered' \in SUBSET Job
    BY <2>2 DEF GiveUp
  <2>9. place' \in [Job -> SUBSET Slot]
    BY <2>2, <2>3
  <2>10. verdict' \in [Job -> Verdict]
    BY <2>2, Verdicts DEF GiveUp
  <2> QED
    BY <2>2, <2>4, <2>5, <2>6, <2>7, <2>8, <2>9, <2>10
<1>6. CASE PickPinned(j)
  <2>1. PICK p \in Placements(j, Pin[j]) :
          /\ place' = [place EXCEPT ![j] = p]
          /\ todo' = [todo EXCEPT ![j] = p]
    BY <1>6 DEF PickPinned
  <2>2. p \in SUBSET Slot
    <3>1. Pin[j] \in Slot
      BY <1>6, SlotPoolAssumption DEF PickPinned
    <3>2. p = {Pin[j]} \/ p \in Group
      BY DEF Placements
    <3> QED
      BY <3>1, <3>2, SlotPoolAssumption
  <2>3. place' \in [Job -> SUBSET Slot] /\ todo' \in [Task -> SUBSET Slot]
    BY <2>1, <2>2
  <2> QED
    BY <1>6, <2>3, Labels DEF PickPinned, Goto, tables, cancels
<1>7. CASE PinRefused(j)
  BY <1>7, Labels, Verdicts DEF PinRefused, GiveUp, Goto, tables, cancels
<1>8. CASE PinKill(j)
  BY <1>8, WorkerTypes, Labels, Purposes DEF PinKill, BeginSpawn, Goto,
     cancels, invocation
<1>9. CASE PinClaim(j)
  BY <1>9, WorkerTypes, Labels DEF PinClaim, Goto, cancels, invocation
<1>10. ASSUME NEW s \in Slot, PinCheck(j, s)
      PROVE  TypeOK'
  BY <1>10, Labels, Purposes DEF PinCheck, Goto, BeginSpawn, tables,
     cancels, invocation
<1>11. CASE Take(j)
  <2>1. CASE workers[at[j]] # None
    <3>1. /\ held' = [held EXCEPT ![j] = workers[at[j]]]
          /\ workers' = [workers EXCEPT ![at[j]] = None]
          /\ pc' = [pc EXCEPT ![j] = "mark"]
          /\ UNCHANGED <<at, why, todo, verdict>>
      BY <1>11, <2>1, Zenon DEF Take, Goto
    <3>2. at[j] \in Slot
      BY <1>11 DEF Take, AtSlot, Working
    <3>3. held' \in [Task -> Worker \cup {None}]
      BY <3>1, <3>2
    <3> QED
      BY <1>11, <3>1, <3>3, Labels DEF Take, cancels
  <2>2. CASE workers[at[j]] = None
    <3>1. pc' \in [Task -> Label] /\ at' \in [Task -> Slot \cup {None}]
      BY <1>11, <2>2, Labels DEF Take, Goto, BeginSpawn, GiveUp
    <3>2. verdict' \in [Job -> Verdict] /\ why' \in [Task -> Purpose \cup {None}]
      BY <1>11, <2>2, Verdicts, Purposes DEF Take, BeginSpawn, GiveUp
    <3>3. todo' \in [Task -> SUBSET Slot]
      BY <1>11, <2>2 DEF Take, GiveUp
    <3> QED
      BY <1>11, <2>2, <3>1, <3>2, <3>3 DEF Take, cancels
  <2> QED
    BY <2>1, <2>2
<1>12. CASE Mark(j)
  BY <1>12, WorkerTypes, Labels DEF Mark, Goto, cancels, invocation
<1>13. CASE RamRefused(j)
  BY <1>13, Labels, Verdicts DEF RamRefused, Goto, tables, cancels, frame
<1>14. CASE RunOk(j)
  BY <1>14, Labels, Purposes, Verdicts DEF RunOk, Goto, BeginSpawn, tables,
     cancels
<1>15. CASE RunFail(j)
  <2>1. workers' \in [Slot -> Worker \cup {None}]
    BY <1>15, WorkerTypes DEF RunFail, ReapSlot
  <2>2. woken' \in SUBSET Job
    BY <1>15 DEF RunFail
  <2>3. pc' \in [Task -> Label]
    BY <1>15, Labels DEF RunFail, BeginSpawn, Goto
  <2>4. at' \in [Task -> Slot \cup {None}]
    BY <1>15 DEF RunFail, BeginSpawn
  <2>5. why' \in [Task -> Purpose \cup {None}]
    BY <1>15, Purposes DEF RunFail, BeginSpawn
  <2>6. held' \in [Task -> Worker \cup {None}]
    BY <1>15, WorkerTypes DEF RunFail, ReapSlot
  <2>7. verdict' \in [Job -> Verdict]
    BY <1>15, Verdicts DEF RunFail
  <2>8. faults' \in Nat
    BY <1>15 DEF RunFail
  <2> QED
    BY <1>15, <2>1, <2>2, <2>3, <2>4, <2>5, <2>6, <2>7, <2>8 DEF RunFail
<1>16. CASE Retry(j)
  BY <1>16, Labels, Verdicts DEF Retry, Goto, tables, cancels, frame
<1>17. CASE Finish(j)
  BY <1>17, Labels DEF Finish, Goto, tables, frame, invocation
<1>18. CASE TpStop(j)
  <2>1. SUFFICES
          ASSUME NEW stopped \in SUBSET place[j],
                 \A s \in stopped : workers[s] # None,
                 workers' = [s \in Slot |->
                   IF s \in stopped
                   THEN [Killed(workers[s]) EXCEPT !.healthy = FALSE]
                   ELSE workers[s]],
                 \/ Goto(j, "tpMark") /\ UNCHANGED <<at, todo, verdict>>
                 \/ GiveUp(j, "error")
          PROVE  TypeOK'
    BY <1>18, Zenon DEF TpStop
  <2>2. \A s \in stopped : Killed(workers[s]) \in Worker
    BY <2>1, WorkerTypes
  <2>3. workers' \in [Slot -> Worker \cup {None}]
    BY <2>1, <2>2, WorkerTypes
  <2>4. pc' \in [Task -> Label]
    BY <2>1, Labels DEF Goto, GiveUp
  <2>5. at' \in [Task -> Slot \cup {None}] /\ todo' \in [Task -> SUBSET Slot]
    BY <2>1 DEF GiveUp
  <2>6. verdict' \in [Job -> Verdict]
    BY <2>1, Verdicts DEF GiveUp
  <2> QED
    BY <1>18, <2>3, <2>4, <2>5, <2>6 DEF TpStop, cancels
<1>19. CASE TpMark(j)
  BY <1>19, Labels DEF TpMark, Goto, cancels, frame, invocation
<1>20. CASE TpSpawn(j)
  BY <1>20, Labels, Verdicts DEF TpSpawn, Goto, tables, cancels, frame
<1>21. CASE TpRun(j)
  BY <1>21, Labels, Verdicts DEF TpRun, Goto, tables, frame
<1>22. CASE TpRestore(j)
  <2>1. SUFFICES
          ASSUME NEW failed \in SUBSET place[j],
                 faults' = faults + (IF failed = {} THEN 0 ELSE 1),
                 workers' = [s \in Slot |->
                   IF s \notin place[j] THEN workers[s]
                   ELSE IF s \notin failed
                        THEN [Fresh EXCEPT !.healthy = s \notin Refused]
                   ELSE IF workers[s] = None THEN None
                   ELSE [Killed(workers[s]) EXCEPT
                           !.busy = workers[s].busy /\ pc[j] = "tpRestore"]]
          PROVE  TypeOK'
    BY <1>22, Zenon DEF TpRestore
  <2>2. \A s \in Slot : workers[s] # None => Killed(workers[s]) \in Worker
    BY WorkerTypes
  <2>3. \A s \in Slot : /\ (s \notin Refused) \in BOOLEAN
                        /\ (workers[s].busy /\ pc[j] = "tpRestore") \in BOOLEAN
    OBVIOUS
  <2>4. workers' \in [Slot -> Worker \cup {None}]
    BY <2>1, <2>2, <2>3, WorkerTypes
  <2>5. faults' \in Nat
    BY <2>1
  <2>6. held' \in [Task -> Worker \cup {None}]
    BY <1>22, WorkerTypes DEF TpRestore
  <2> QED
    BY <1>22, <2>4, <2>5, <2>6, Labels DEF TpRestore, Goto, cancels, invocation
<1>23. CASE TpClear(j)
  BY <1>23, Labels DEF TpClear, Goto, cancels, frame, invocation
<1> QED
  BY <1>1, <1>2, <1>3, <1>4, <1>5, <1>6, <1>7, <1>8, <1>9, <1>10, <1>11,
     <1>12, <1>13, <1>14, <1>15, <1>16, <1>17, <1>18, <1>19, <1>20, <1>21,
     <1>22, <1>23 DEF Invoke

\* The steps of evict_all and preload_slots keep the types.
LEMMA WarmTypes ==
    ASSUME TypeOK, AtSlot, NEW w \in Warmer, Warm(w)
    PROVE  TypeOK'
<1> w \in Task
  BY DEF Task
<1> USE DEF TypeOK
<1>1. CASE PreloadTake(w)
  <2>1. CASE workers[at[w]] = None
    BY <1>1, <2>1, Labels DEF PreloadTake, Goto, cancels, invocation
  <2>2. CASE workers[at[w]] # None
    <3>1. workers[at[w]] \in Worker
      BY <1>1, <2>2 DEF PreloadTake, AtSlot, Working
    <3> QED
      BY <1>1, <2>2, <3>1, Labels DEF PreloadTake, Goto, cancels, invocation
  <2> QED
    BY <2>1, <2>2
<1>2. CASE WarmMark(w)
  BY <1>2, Labels DEF WarmMark, Goto, cancels, frame, invocation
<1>3. CASE WarmRpc(w)
  BY <1>3, WorkerTypes, Labels DEF WarmRpc, Goto, tables, cancels,
     invocation
<1>4. CASE WarmDone(w)
  BY <1>4, Labels, Purposes DEF WarmDone, Goto, tables, cancels, invocation
<1>5. ASSUME NEW s \in Slot, EvictTake(w, s)
      PROVE  TypeOK'
  BY <1>5, WorkerTypes, Labels DEF EvictTake, Goto, cancels, invocation
<1>6. ASSUME NEW s \in Slot, PreloadEvict(w, s)
      PROVE  TypeOK'
  BY <1>6, WorkerTypes, Labels DEF PreloadEvict, Goto, cancels, invocation
<1>7. ASSUME NEW s \in Slot, PreloadClaim(w, s)
      PROVE  TypeOK'
  <2>1. workers' \in [Slot -> Worker \cup {None}]
    BY <1>7, WorkerTypes DEF PreloadClaim, Idle
  <2>2. pc' \in [Task -> Label]
    BY <1>7, Labels DEF PreloadClaim, Goto
  <2>3. at' \in [Task -> Slot \cup {None}]
    BY <1>7 DEF PreloadClaim
  <2>4. todo' \in [Task -> SUBSET Slot]
    BY <1>7 DEF PreloadClaim
  <2> QED
    BY <1>7, <2>1, <2>2, <2>3, <2>4 DEF PreloadClaim, cancels, invocation
<1>8. ASSUME NEW s \in Slot, PreloadSkip(w, s)
      PROVE  TypeOK'
  BY <1>8 DEF PreloadSkip, tables, cancels, invocation
<1> QED
  BY <1>1, <1>2, <1>3, <1>4, <1>5, <1>6, <1>7, <1>8 DEF Warm

\* Requests from the session, and time passing, keep the types.
LEMMA EnvironmentTypes ==
    ASSUME TypeOK, AtSlot, Environment
    PROVE  TypeOK'
<1> USE DEF TypeOK
<1>1. ASSUME NEW j \in Job, Submit(j)
      PROVE  TypeOK'
  BY <1>1, Labels DEF Submit, Goto, tables, frame, invocation
<1>2. ASSUME NEW j \in Job, Cancel(j)
      PROVE  TypeOK'
  BY <1>2 DEF Cancel, Notify, tables, frame, invocation
<1>3. ASSUME NEW j \in Job, Token(j)
      PROVE  TypeOK'
  BY <1>3 DEF Token, tables, cancels, frame
<1>4. ASSUME NEW s \in Slot, Age(s)
      PROVE  TypeOK'
  BY <1>4 DEF Age, cancels, frame, invocation
<1>5. ASSUME NEW w \in Warmer, StartEvictAll(w)
      PROVE  TypeOK'
  BY <1>5, Labels DEF StartEvictAll, Goto, tables, cancels, invocation
<1>6. ASSUME NEW w \in Warmer, StartPreload(w)
      PROVE  TypeOK'
  BY <1>6, Labels, Purposes DEF StartPreload, Goto, tables, cancels,
     invocation
<1> QED
  BY <1>1, <1>2, <1>3, <1>4, <1>5, <1>6 DEF Environment

-----------------------------------------------------------------------------
(* A task that works on a slot knows it *)

\* A task that works on a slot knows it: the steps of reconcile_slots.
LEMMA ReconcileAtSlot ==
    ASSUME TypeOK, AtSlot, NEW t \in Task, Reconcile(t)
    PROVE  AtSlot'
<1> USE SlotPoolAssumption DEF TypeOK, AtSlot, Working
<1>1. CASE ClearOrphanBusy(t)
  BY <1>1 DEF ClearOrphanBusy, Goto, cancels, frame, invocation
<1>2. CASE Reclaim(t)
  BY <1>2 DEF Reclaim, Goto, BeginSpawn, cancels, invocation
<1>3. CASE StaleDone(t)
  BY <1>3 DEF StaleDone, Goto, tables, cancels, frame, invocation
<1>4. CASE FindMissing(t)
  BY <1>4 DEF FindMissing, Goto, AfterReconcile, tables, cancels, invocation
<1>5. ASSUME NEW s \in Slot, CancelStale(t, s)
      PROVE  AtSlot'
  BY <1>5 DEF CancelStale, Goto, Notify, tables, invocation
<1>6. ASSUME NEW s \in Slot, RespawnMissing(t, s)
      PROVE  AtSlot'
  BY <1>6 DEF RespawnMissing, BeginSpawn, Goto, tables, cancels, invocation
<1> QED
  BY <1>1, <1>2, <1>3, <1>4, <1>5, <1>6 DEF Reconcile

\* A task that works on a slot knows it: the steps of spawn_worker.
LEMMA SpawnAtSlot ==
    ASSUME TypeOK, AtSlot, NEW t \in Task, Spawn(t)
    PROVE  AtSlot'
<1> USE SlotPoolAssumption DEF TypeOK, AtSlot, Working
<1>1. CASE Reap(t)
  BY <1>1 DEF Reap, Goto, ReapSlot, cancels, invocation
<1>2. CASE Create(t)
  BY <1>2 DEF Create, Goto, tables, cancels, invocation
<1>3. CASE PingOk(t)
  BY <1>3 DEF PingOk, Goto, GiveUp, NextMissing, AfterReconcile, cancels
<1>4. CASE PingFail(t)
  BY <1>4 DEF PingFail, Goto, GiveUp, NextMissing, AfterReconcile, cancels
<1> QED
  BY <1>1, <1>2, <1>3, <1>4 DEF Spawn

\* A task that works on a slot knows it: the steps of return_worker.
LEMMA ReturnAtSlot ==
    ASSUME TypeOK, AtSlot, NEW t \in Task, Return(t)
    PROVE  AtSlot'
<1> USE SlotPoolAssumption DEF TypeOK, AtSlot, Working
<1>1. CASE ClearCheckout(t)
  BY <1>1 DEF ClearCheckout, Goto, cancels, frame, invocation
<1>2. CASE PutBack(t)
  BY <1>2 DEF PutBack, Goto, cancels, invocation
<1> QED
  BY <1>1, <1>2 DEF Return

\* A task that works on a slot knows it: the steps of invoke and invoke_image.
LEMMA InvokeAtSlot ==
    ASSUME TypeOK, AtSlot, NEW j \in Job, Invoke(j)
    PROVE  AtSlot'
<1> j \in Task
  BY DEF Task
<1> USE SlotPoolAssumption DEF TypeOK, AtSlot, Working
<1>1. CASE Placing(j)
  BY <1>1 DEF Placing, Goto, tables, cancels, frame, invocation
<1>2. CASE PlacingAborted(j)
  BY <1>2 DEF PlacingAborted, GiveUp, Goto, tables
<1>3. CASE ListIdle(j)
  BY <1>3 DEF ListIdle, Goto, tables, cancels, invocation
<1>4. CASE NoPlacement(j)
  BY <1>4 DEF NoPlacement, GiveUp, Goto, tables, cancels
<1>5. CASE Claim(j)
  BY <1>5 DEF Claim, Goto, BeginSpawn, GiveUp, Placements
<1>6. CASE PickPinned(j)
  BY <1>6 DEF PickPinned, Goto, Placements, tables, cancels
<1>7. CASE PinRefused(j)
  BY <1>7 DEF PinRefused, GiveUp, Goto, tables, cancels
<1>8. CASE PinKill(j)
  BY <1>8 DEF PinKill, BeginSpawn, Goto, cancels, invocation
<1>9. CASE PinClaim(j)
  BY <1>9 DEF PinClaim, Goto, cancels, invocation
<1>10. ASSUME NEW s \in Slot, PinCheck(j, s)
      PROVE  AtSlot'
  BY <1>10 DEF PinCheck, Goto, BeginSpawn, tables, cancels, invocation
<1>11. CASE Take(j)
  BY <1>11 DEF Take, Goto, BeginSpawn, GiveUp, cancels
<1>12. CASE Mark(j)
  BY <1>12 DEF Mark, Goto, cancels, invocation
<1>13. CASE RamRefused(j)
  BY <1>13 DEF RamRefused, Goto, tables, cancels, frame
<1>14. CASE RunOk(j)
  BY <1>14 DEF RunOk, Goto, BeginSpawn, tables, cancels
<1>15. CASE RunFail(j)
  BY <1>15 DEF RunFail, BeginSpawn, Goto, ReapSlot
<1>16. CASE Retry(j)
  BY <1>16 DEF Retry, Goto, tables, cancels, frame
<1>17. CASE Finish(j)
  BY <1>17 DEF Finish, Goto, tables, frame, invocation
<1>18. CASE TpStop(j)
  <2>1. PICK stopped \in SUBSET place[j] : TpStop(j)!2!(stopped)
    BY <1>18, Zenon DEF TpStop
  <2>2. \/ pc' = [pc EXCEPT ![j] = "tpMark"] /\ at' = at
        \/ pc' = [pc EXCEPT ![j] = "verdict"] /\ at' = [at EXCEPT ![j] = None]
    BY <2>1, Zenon DEF Goto, GiveUp
  <2> QED
    BY <2>2
<1>19. CASE TpMark(j)
  BY <1>19 DEF TpMark, Goto, cancels, frame, invocation
<1>20. CASE TpSpawn(j)
  BY <1>20 DEF TpSpawn, Goto, tables, cancels, frame
<1>21. CASE TpRun(j)
  BY <1>21 DEF TpRun, Goto, tables, frame
<1>22. CASE TpRestore(j)
  BY <1>22 DEF TpRestore, Goto, cancels, invocation
<1>23. CASE TpClear(j)
  BY <1>23 DEF TpClear, Goto, cancels, frame, invocation
<1> QED
  BY <1>1, <1>2, <1>3, <1>4, <1>5, <1>6, <1>7, <1>8, <1>9, <1>10, <1>11,
     <1>12, <1>13, <1>14, <1>15, <1>16, <1>17, <1>18, <1>19, <1>20, <1>21,
     <1>22, <1>23 DEF Invoke

\* A task that works on a slot knows it: the steps of evict_all and preload_slots.
LEMMA WarmAtSlot ==
    ASSUME TypeOK, AtSlot, NEW w \in Warmer, Warm(w)
    PROVE  AtSlot'
<1> w \in Task
  BY DEF Task
<1> USE SlotPoolAssumption DEF TypeOK, AtSlot, Working
<1>1. CASE PreloadTake(w)
  BY <1>1 DEF PreloadTake, Goto, cancels, invocation
<1>2. CASE WarmMark(w)
  BY <1>2 DEF WarmMark, Goto, cancels, frame, invocation
<1>3. CASE WarmRpc(w)
  BY <1>3 DEF WarmRpc, Goto, tables, cancels, invocation
<1>4. CASE WarmDone(w)
  BY <1>4 DEF WarmDone, Goto, tables, cancels, invocation
<1>5. ASSUME NEW s \in Slot, EvictTake(w, s)
      PROVE  AtSlot'
  BY <1>5 DEF EvictTake, Goto, cancels, invocation
<1>6. ASSUME NEW s \in Slot, PreloadEvict(w, s)
      PROVE  AtSlot'
  BY <1>6 DEF PreloadEvict, Goto, cancels, invocation
<1>7. ASSUME NEW s \in Slot, PreloadClaim(w, s)
      PROVE  AtSlot'
  BY <1>7 DEF PreloadClaim, Goto, cancels, invocation
<1>8. ASSUME NEW s \in Slot, PreloadSkip(w, s)
      PROVE  AtSlot'
  BY <1>8 DEF PreloadSkip, tables, cancels, invocation
<1> QED
  BY <1>1, <1>2, <1>3, <1>4, <1>5, <1>6, <1>7, <1>8 DEF Warm

\* A task that works on a slot knows it: requests from the session and time passing.
LEMMA EnvironmentAtSlot ==
    ASSUME TypeOK, AtSlot, Environment
    PROVE  AtSlot'
<1> USE SlotPoolAssumption DEF TypeOK, AtSlot, Working
<1>1. ASSUME NEW j \in Job, Submit(j)
      PROVE  AtSlot'
  BY <1>1 DEF Submit, Goto, tables, frame, invocation
<1>2. ASSUME NEW j \in Job, Cancel(j)
      PROVE  AtSlot'
  BY <1>2 DEF Cancel, Notify, tables, frame, invocation
<1>3. ASSUME NEW j \in Job, Token(j)
      PROVE  AtSlot'
  BY <1>3 DEF Token, tables, cancels, frame
<1>4. ASSUME NEW s \in Slot, Age(s)
      PROVE  AtSlot'
  BY <1>4 DEF Age, cancels, frame, invocation
<1>5. ASSUME NEW w \in Warmer, StartEvictAll(w)
      PROVE  AtSlot'
  BY <1>5 DEF StartEvictAll, Goto, tables, cancels, invocation
<1>6. ASSUME NEW w \in Warmer, StartPreload(w)
      PROVE  AtSlot'
  BY <1>6 DEF StartPreload, Goto, tables, cancels, invocation
<1> QED
  BY <1>1, <1>2, <1>3, <1>4, <1>5, <1>6 DEF Environment

-----------------------------------------------------------------------------
(* The theorem *)

\* Every step keeps the types and the slots of the tasks.
LEMMA NextTypes ==
    TypeOK /\ AtSlot /\ [Next]_vars => (TypeOK /\ AtSlot)'
<1> SUFFICES ASSUME TypeOK, AtSlot, [Next]_vars
             PROVE  (TypeOK /\ AtSlot)'
  OBVIOUS
<1>1. CASE UNCHANGED vars
  BY <1>1 DEF vars, TypeOK, AtSlot, Working
<1>2. ASSUME NEW j \in Job, JobStepOf(j)
      PROVE  (TypeOK /\ AtSlot)'
  BY <1>2, ReconcileTypes, ReconcileAtSlot, SpawnTypes, SpawnAtSlot,
     ReturnTypes, ReturnAtSlot, InvokeTypes, InvokeAtSlot DEF JobStepOf, Task
<1>3. ASSUME NEW m \in Maintainer, MaintainerStep(m)
      PROVE  (TypeOK /\ AtSlot)'
  <2>1. CASE StartReconcile(m)
    BY <2>1, SlotPoolAssumption, Labels DEF StartReconcile, Goto, tables,
       cancels, frame, invocation, Task, TypeOK, AtSlot, Working
  <2> QED
    BY <1>3, <2>1, ReconcileTypes, ReconcileAtSlot, SpawnTypes, SpawnAtSlot
       DEF MaintainerStep, Task
<1>4. ASSUME NEW w \in Warmer, WarmerStep(w)
      PROVE  (TypeOK /\ AtSlot)'
  BY <1>4, ReturnTypes, ReturnAtSlot, WarmTypes, WarmAtSlot DEF WarmerStep,
     Task
<1>5. CASE Environment
  BY <1>5, EnvironmentTypes, EnvironmentAtSlot
<1> QED
  BY <1>1, <1>2, <1>3, <1>4, <1>5 DEF Next

\* The tables of the supervisor and the state of its tasks stay well typed:
\* whatever the interleaving, no task works on a slot it does not know.
THEOREM TypeCorrect == Spec => [](TypeOK /\ AtSlot)
<1>1. Init => TypeOK /\ AtSlot
  BY InitTypes
<1>2. TypeOK /\ AtSlot /\ [Next]_vars => (TypeOK /\ AtSlot)'
  BY NextTypes
<1> QED
  BY <1>1, <1>2, PTL DEF Spec

(***************************************************************************)
(* 2. Checkouts and cancels                                                *)
(***************************************************************************)

-----------------------------------------------------------------------------
(* Checkouts *)

\* Nothing is checked out initially.
LEMMA InitHeld == Init => CheckoutHeld
BY SlotPoolAssumption DEF Init, CheckoutHeld

\* Checkouts stay with their tasks: the steps of reconcile_slots.
LEMMA ReconcileHeld ==
    ASSUME TypeOK, CheckoutHeld, NEW t \in Task, Reconcile(t)
    PROVE  CheckoutHeld'
<1> USE SlotPoolAssumption DEF TypeOK, CheckoutHeld, Marked, SpawnStep
<1>1. CASE ClearOrphanBusy(t)
  BY <1>1 DEF ClearOrphanBusy, Goto, cancels, frame, invocation
<1>2. CASE Reclaim(t)
  BY <1>2 DEF Reclaim, Goto, BeginSpawn, cancels, invocation
<1>3. CASE StaleDone(t)
  BY <1>3 DEF StaleDone, Goto, tables, cancels, frame, invocation
<1>4. CASE FindMissing(t)
  BY <1>4 DEF FindMissing, Goto, AfterReconcile, tables, cancels, invocation
<1>5. ASSUME NEW s \in Slot, CancelStale(t, s)
      PROVE  CheckoutHeld'
  BY <1>5 DEF CancelStale, Goto, Notify, tables, invocation
<1>6. ASSUME NEW s \in Slot, RespawnMissing(t, s)
      PROVE  CheckoutHeld'
  BY <1>6 DEF RespawnMissing, BeginSpawn, Goto, tables, cancels, invocation
<1> QED
  BY <1>1, <1>2, <1>3, <1>4, <1>5, <1>6 DEF Reconcile

\* Checkouts stay with their tasks: the steps of spawn_worker.
LEMMA SpawnHeld ==
    ASSUME TypeOK, CheckoutHeld, NEW t \in Task, Spawn(t)
    PROVE  CheckoutHeld'
<1> USE SlotPoolAssumption DEF TypeOK, CheckoutHeld, Marked, SpawnStep
<1>1. CASE Reap(t)
  BY <1>1 DEF Reap, Goto, ReapSlot, cancels, invocation
<1>2. CASE Create(t)
  BY <1>2 DEF Create, Goto, tables, cancels, invocation
<1>3. CASE PingOk(t)
  BY <1>3 DEF PingOk, Goto, GiveUp, NextMissing, AfterReconcile, cancels
<1>4. CASE PingFail(t)
  BY <1>4 DEF PingFail, Goto, GiveUp, NextMissing, AfterReconcile, cancels
<1> QED
  BY <1>1, <1>2, <1>3, <1>4 DEF Spawn

\* Checkouts stay with their tasks: the steps of return_worker.
LEMMA ReturnHeld ==
    ASSUME TypeOK, CheckoutHeld, NEW t \in Task, Return(t)
    PROVE  CheckoutHeld'
<1> USE SlotPoolAssumption DEF TypeOK, CheckoutHeld, Marked, SpawnStep
<1>1. CASE ClearCheckout(t)
  BY <1>1 DEF ClearCheckout, Goto, cancels, frame, invocation
<1>2. CASE PutBack(t)
  BY <1>2 DEF PutBack, Goto, cancels, invocation
<1> QED
  BY <1>1, <1>2 DEF Return

\* Checkouts stay with their tasks: the steps of invoke and invoke_image.
LEMMA InvokeHeld ==
    ASSUME TypeOK, CheckoutHeld, NEW j \in Job, Invoke(j)
    PROVE  CheckoutHeld'
<1> j \in Task
  BY DEF Task
<1> USE SlotPoolAssumption DEF TypeOK, CheckoutHeld, Marked, SpawnStep
<1>1. CASE Placing(j)
  BY <1>1 DEF Placing, Goto, tables, cancels, frame, invocation
<1>2. CASE PlacingAborted(j)
  BY <1>2 DEF PlacingAborted, GiveUp, Goto, tables
<1>3. CASE ListIdle(j)
  BY <1>3 DEF ListIdle, Goto, tables, cancels, invocation
<1>4. CASE NoPlacement(j)
  BY <1>4 DEF NoPlacement, GiveUp, Goto, tables, cancels
<1>5. CASE Claim(j)
  BY <1>5 DEF Claim, Goto, BeginSpawn, GiveUp, Placements
<1>6. CASE PickPinned(j)
  BY <1>6 DEF PickPinned, Goto, Placements, tables, cancels
<1>7. CASE PinRefused(j)
  BY <1>7 DEF PinRefused, GiveUp, Goto, tables, cancels
<1>8. CASE PinKill(j)
  BY <1>8 DEF PinKill, BeginSpawn, Goto, cancels, invocation
<1>9. CASE PinClaim(j)
  BY <1>9 DEF PinClaim, Goto, cancels, invocation
<1>10. ASSUME NEW s \in Slot, PinCheck(j, s)
      PROVE  CheckoutHeld'
  BY <1>10 DEF PinCheck, Goto, BeginSpawn, tables, cancels, invocation
<1>11. CASE Take(j)
  BY <1>11 DEF Take, Goto, BeginSpawn, GiveUp, cancels
<1>12. CASE Mark(j)
  BY <1>12 DEF Mark, Goto, cancels, invocation
<1>13. CASE RamRefused(j)
  BY <1>13 DEF RamRefused, Goto, tables, cancels, frame
<1>14. CASE RunOk(j)
  BY <1>14 DEF RunOk, Goto, BeginSpawn, tables, cancels
<1>15. CASE RunFail(j)
  BY <1>15 DEF RunFail, BeginSpawn, Goto, ReapSlot
<1>16. CASE Retry(j)
  BY <1>16 DEF Retry, Goto, tables, cancels, frame
<1>17. CASE Finish(j)
  BY <1>17 DEF Finish, Goto, tables, frame, invocation
<1>18. CASE TpStop(j)
  <2>1. PICK stopped \in SUBSET place[j] : TpStop(j)!2!(stopped)
    BY <1>18, Zenon DEF TpStop
  <2>2. \/ pc' = [pc EXCEPT ![j] = "tpMark"] /\ at' = at
        \/ pc' = [pc EXCEPT ![j] = "verdict"] /\ at' = [at EXCEPT ![j] = None]
    BY <2>1, Zenon DEF Goto, GiveUp
  <2>3. pc[j] = "tp" /\ UNCHANGED <<checkouts, why, place>>
    BY <1>18 DEF TpStop
  <2> QED
    BY <2>2, <2>3
<1>19. CASE TpMark(j)
  BY <1>19 DEF TpMark, Goto, cancels, frame, invocation
<1>20. CASE TpSpawn(j)
  BY <1>20 DEF TpSpawn, Goto, tables, cancels, frame
<1>21. CASE TpRun(j)
  BY <1>21 DEF TpRun, Goto, tables, frame
<1>22. CASE TpRestore(j)
  BY <1>22 DEF TpRestore, Goto, cancels, invocation
<1>23. CASE TpClear(j)
  BY <1>23 DEF TpClear, Goto, cancels, frame, invocation
<1> QED
  BY <1>1, <1>2, <1>3, <1>4, <1>5, <1>6, <1>7, <1>8, <1>9, <1>10, <1>11,
     <1>12, <1>13, <1>14, <1>15, <1>16, <1>17, <1>18, <1>19, <1>20, <1>21,
     <1>22, <1>23 DEF Invoke

\* Checkouts stay with their tasks: the steps of evict_all and preload_slots.
LEMMA WarmHeld ==
    ASSUME TypeOK, CheckoutHeld, NEW w \in Warmer, Warm(w)
    PROVE  CheckoutHeld'
<1> w \in Task
  BY DEF Task
<1> USE SlotPoolAssumption DEF TypeOK, CheckoutHeld, Marked, SpawnStep
<1>1. CASE PreloadTake(w)
  BY <1>1 DEF PreloadTake, Goto, cancels, invocation
<1>2. CASE WarmMark(w)
  BY <1>2 DEF WarmMark, Goto, cancels, frame, invocation
<1>3. CASE WarmRpc(w)
  BY <1>3 DEF WarmRpc, Goto, tables, cancels, invocation
<1>4. CASE WarmDone(w)
  BY <1>4 DEF WarmDone, Goto, tables, cancels, invocation
<1>5. ASSUME NEW s \in Slot, EvictTake(w, s)
      PROVE  CheckoutHeld'
  BY <1>5 DEF EvictTake, Goto, cancels, invocation
<1>6. ASSUME NEW s \in Slot, PreloadEvict(w, s)
      PROVE  CheckoutHeld'
  BY <1>6 DEF PreloadEvict, Goto, cancels, invocation
<1>7. ASSUME NEW s \in Slot, PreloadClaim(w, s)
      PROVE  CheckoutHeld'
  BY <1>7 DEF PreloadClaim, Goto, cancels, invocation
<1>8. ASSUME NEW s \in Slot, PreloadSkip(w, s)
      PROVE  CheckoutHeld'
  BY <1>8 DEF PreloadSkip, tables, cancels, invocation
<1> QED
  BY <1>1, <1>2, <1>3, <1>4, <1>5, <1>6, <1>7, <1>8 DEF Warm

\* Checkouts stay with their tasks: requests from the session and time passing.
LEMMA EnvironmentHeld ==
    ASSUME TypeOK, CheckoutHeld, Environment
    PROVE  CheckoutHeld'
<1> USE SlotPoolAssumption DEF TypeOK, CheckoutHeld, Marked, SpawnStep
<1>1. ASSUME NEW j \in Job, Submit(j)
      PROVE  CheckoutHeld'
  BY <1>1 DEF Submit, Goto, tables, frame, invocation
<1>2. ASSUME NEW j \in Job, Cancel(j)
      PROVE  CheckoutHeld'
  BY <1>2 DEF Cancel, Notify, tables, frame, invocation
<1>3. ASSUME NEW j \in Job, Token(j)
      PROVE  CheckoutHeld'
  BY <1>3 DEF Token, tables, cancels, frame
<1>4. ASSUME NEW s \in Slot, Age(s)
      PROVE  CheckoutHeld'
  BY <1>4 DEF Age, cancels, frame, invocation
<1>5. ASSUME NEW w \in Warmer, StartEvictAll(w)
      PROVE  CheckoutHeld'
  BY <1>5 DEF StartEvictAll, Goto, tables, cancels, invocation
<1>6. ASSUME NEW w \in Warmer, StartPreload(w)
      PROVE  CheckoutHeld'
  BY <1>6 DEF StartPreload, Goto, tables, cancels, invocation
<1> QED
  BY <1>1, <1>2, <1>3, <1>4, <1>5, <1>6 DEF Environment

\* Every step keeps the checkouts with their tasks.
LEMMA NextHeld ==
    TypeOK /\ CheckoutHeld /\ [Next]_vars => (CheckoutHeld)'
<1> SUFFICES ASSUME TypeOK, CheckoutHeld, [Next]_vars
             PROVE  (CheckoutHeld)'
  OBVIOUS
<1>1. CASE UNCHANGED vars
  BY <1>1 DEF vars, CheckoutHeld, Marked, SpawnStep
<1>2. ASSUME NEW j \in Job, JobStepOf(j)
      PROVE  (CheckoutHeld)'
  BY <1>2, ReconcileHeld, SpawnHeld, ReturnHeld, InvokeHeld DEF JobStepOf,
     Task
<1>3. ASSUME NEW m \in Maintainer, MaintainerStep(m)
      PROVE  (CheckoutHeld)'
  <2>1. CASE StartReconcile(m)
    BY <2>1, SlotPoolAssumption, Labels DEF StartReconcile, Goto, tables,
       cancels, frame, invocation, Task, CheckoutHeld, Marked, SpawnStep
  <2> QED
    BY <1>3, <2>1, ReconcileHeld, SpawnHeld DEF MaintainerStep, Task
<1>4. ASSUME NEW w \in Warmer, WarmerStep(w)
      PROVE  (CheckoutHeld)'
  BY <1>4, ReturnHeld, WarmHeld DEF WarmerStep, Task
<1>5. CASE Environment
  BY <1>5, EnvironmentHeld
<1> QED
  BY <1>1, <1>2, <1>3, <1>4, <1>5 DEF Next

\* An entry of the checkout table belongs to a task that is using the slot and
\* will clear it: neither a crash, a cancellation, a failed respawn nor a
\* reclaim leaves an entry that nobody owns.
THEOREM CheckoutsAreHeld == Spec => []CheckoutHeld
<1>1. Init => CheckoutHeld
  BY InitHeld
<1>2. TypeOK /\ CheckoutHeld /\ [Next]_vars => CheckoutHeld'
  BY NextHeld
<1> QED
  BY <1>1, <1>2, TypeCorrect, PTL DEF Spec

-----------------------------------------------------------------------------
(* Cancel signals *)

\* Only the checkout of an image job gets old enough to be reclaimed.
AgedUnderImage == \A s \in aged : checkouts[s] \in Image

\* A job that has been notified is still where it awaits the signal.
WokenAwaits == \A j \in woken : Awaiting(j)

\* An image job never runs on a tensor-parallel group, and a pinned one has
\* chosen its pin.
ImagesAlone ==
    \A j \in Image :
        /\ pc[j] \notin {"tp", "tpMark", "tpSpawn", "tpRun", "tpRestore",
                         "tpUndo", "tpClear", "warmRpc"}
        /\ \/ pc[j] \in {"pin", "pinKill"}
           \/ pc[j] \in SpawnStep /\ why[j] = "pin"
           => place[j] = {Pin[j]}

\* The invoke may have lost its signal, for it will not wait for it again: its
\* claim failed, or it is an image job past its run.
Leaving(j) ==
    \/ pc[j] \in SpawnStep /\ why[j] = "claimMiss"
    \/ pc[j] = "verdict" /\ verdict[j] = "error"
    \/ /\ j \in Image
       /\ \/ pc[j] \in {"clear", "putBack", "verdict"}
          \/ pc[j] \in SpawnStep /\ why[j] = "restore"

\* Every other invoke is registered, or an image job that has been notified.
SignalKept ==
    \A j \in Job : \/ pc[j] \in {"idle", "done"}
                   \/ j \in registered
                   \/ j \in woken /\ j \in Image
                   \/ Leaving(j)

\* A registered signal belongs to an invoke that has not returned.
RegisteredLives == \A j \in registered : pc[j] \notin {"idle", "done"}

\* The inductive strengthening of CancelsInFlight.
SignalInv ==
    /\ AgedUnderImage /\ WokenAwaits /\ ImagesAlone /\ SignalKept
    /\ RegisteredLives

\* Nothing is registered, notified or old initially.
LEMMA InitSignals == Init => SignalInv
BY SlotPoolAssumption DEF Init, SignalInv, AgedUnderImage, WokenAwaits,
   ImagesAlone, SignalKept, RegisteredLives, SpawnStep, Task

\* Cancel signals are kept: the steps of reconcile_slots.
LEMMA ReconcileSignals ==
    ASSUME TypeOK, AtSlot, CheckoutHeld, SignalInv, NEW t \in Task, Reconcile(t)
    PROVE  SignalInv'
<1> USE SlotPoolAssumption DEF TypeOK, AtSlot, Working, SignalInv,
            AgedUnderImage, WokenAwaits, ImagesAlone, RegisteredLives,
            SignalKept, Leaving, Awaiting, SpawnStep, Task
<1>1. CASE ClearOrphanBusy(t)
  BY <1>1 DEF ClearOrphanBusy, Goto, cancels, frame, invocation
<1>2. CASE Reclaim(t)
  BY <1>2, SMTT(30) DEF Reclaim, Goto, BeginSpawn, cancels, invocation
<1>3. CASE StaleDone(t)
  BY <1>3 DEF StaleDone, Goto, tables, cancels, frame, invocation
<1>4. CASE FindMissing(t)
  BY <1>4, SMTT(30) DEF FindMissing, Goto, AfterReconcile, tables, cancels,
     invocation
<1>5. ASSUME NEW s \in Slot, CancelStale(t, s)
      PROVE  SignalInv'
  <2>1. AgedUnderImage'
    BY <1>5 DEF CancelStale, Goto, Notify, tables, invocation
  <2>2. WokenAwaits'
    BY <1>5 DEF CancelStale, Goto, Notify, tables, invocation
  <2>3. ImagesAlone'
    BY <1>5 DEF CancelStale, Goto, Notify, tables, invocation
  <2>4. SignalKept'
    <3> DEFINE i == checkouts[s]
    <3>1. i \in Image /\ i \in Job
      BY <1>5, SlotPoolAssumption DEF CancelStale, AgedUnderImage
    <3>2. Marked(i, s) /\ pc[t] = "stale"
      BY <1>5, <3>1, SlotPoolAssumption DEF CancelStale, CheckoutHeld
    <3>3. Leaving(i) \/ Awaiting(i)
      <4>1. pc[i] \notin {"tpSpawn", "tpRun", "tpRestore", "tpUndo", "tpClear",
                         "warmRpc"}
        BY <3>1
      <4>2. \/ pc[i] \in {"run", "clear"}
            \/ pc[i] \in SpawnStep /\ why[i] = "restore"
        BY <3>1, <3>2, <4>1, SlotPoolAssumption DEF Marked
      <4> QED
        BY <3>1, <4>2
    <3>4. i \in registered /\ Awaiting(i) => i \in woken'
      BY <1>5 DEF CancelStale, Notify
    <3>5. t # i
      BY <3>2, SlotPoolAssumption DEF Marked
    <3> QED
      BY <1>5, <3>1, <3>2, <3>3, <3>4, <3>5 DEF CancelStale, Notify, Goto, tables,
         invocation
  <2>5. RegisteredLives'
    BY <1>5 DEF CancelStale, Goto, Notify, tables, invocation
  <2> QED
    BY <2>1, <2>2, <2>3, <2>4, <2>5
<1>6. ASSUME NEW s \in Slot, RespawnMissing(t, s)
      PROVE  SignalInv'
  BY <1>6 DEF RespawnMissing, BeginSpawn, Goto, tables, cancels, invocation
<1> QED
  BY <1>1, <1>2, <1>3, <1>4, <1>5, <1>6 DEF Reconcile

\* Cancel signals are kept: the steps of spawn_worker.
LEMMA SpawnSignals ==
    ASSUME TypeOK, AtSlot, CheckoutHeld, SignalInv, NEW t \in Task, Spawn(t)
    PROVE  SignalInv'
<1> USE SlotPoolAssumption DEF TypeOK, AtSlot, Working, SignalInv,
            AgedUnderImage, WokenAwaits, ImagesAlone, RegisteredLives,
            SignalKept, Leaving, Awaiting, SpawnStep, Task
<1>1. CASE Reap(t)
  BY <1>1 DEF Reap, Goto, ReapSlot, cancels, invocation
<1>2. CASE Create(t)
  BY <1>2 DEF Create, Goto, tables, cancels, invocation
<1>3. CASE PingOk(t)
  <2>1. AgedUnderImage'
    BY <1>3 DEF PingOk, Goto, GiveUp, NextMissing, AfterReconcile, cancels
  <2>2. WokenAwaits'
    BY <1>3 DEF PingOk, Goto, GiveUp, NextMissing, AfterReconcile, cancels
  <2>3. ImagesAlone'
    BY <1>3 DEF PingOk, Goto, GiveUp, NextMissing, AfterReconcile, cancels
  <2>4. SignalKept'
    BY <1>3 DEF PingOk, Goto, GiveUp, NextMissing, AfterReconcile, cancels
  <2>5. RegisteredLives'
    BY <1>3 DEF PingOk, Goto, GiveUp, NextMissing, AfterReconcile, cancels
  <2> QED
    BY <2>1, <2>2, <2>3, <2>4, <2>5
<1>4. CASE PingFail(t)
  BY <1>4, SMTT(30) DEF PingFail, Goto, GiveUp, NextMissing, AfterReconcile,
     cancels
<1> QED
  BY <1>1, <1>2, <1>3, <1>4 DEF Spawn

\* Cancel signals are kept: the steps of return_worker.
LEMMA ReturnSignals ==
    ASSUME TypeOK, AtSlot, CheckoutHeld, SignalInv, NEW t \in Task, Return(t)
    PROVE  SignalInv'
<1> USE SlotPoolAssumption DEF TypeOK, AtSlot, Working, SignalInv,
            AgedUnderImage, WokenAwaits, ImagesAlone, RegisteredLives,
            SignalKept, Leaving, Awaiting, SpawnStep, Task
<1>1. CASE ClearCheckout(t)
  BY <1>1 DEF ClearCheckout, Goto, cancels, frame, invocation
<1>2. CASE PutBack(t)
  BY <1>2 DEF PutBack, Goto, cancels, invocation
<1> QED
  BY <1>1, <1>2 DEF Return

\* Cancel signals are kept: the steps of invoke and invoke_image.
LEMMA InvokeSignals ==
    ASSUME TypeOK, AtSlot, CheckoutHeld, SignalInv, NEW j \in Job, Invoke(j)
    PROVE  SignalInv'
<1> j \in Task
  BY DEF Task
<1> USE SlotPoolAssumption DEF TypeOK, AtSlot, Working, SignalInv,
            AgedUnderImage, WokenAwaits, ImagesAlone, RegisteredLives,
            SignalKept, Leaving, Awaiting, SpawnStep, Task
<1>1. CASE Placing(j)
  BY <1>1 DEF Placing, Goto, tables, cancels, frame, invocation
<1>2. CASE PlacingAborted(j)
  BY <1>2 DEF PlacingAborted, GiveUp, Goto, tables
<1>3. CASE ListIdle(j)
  BY <1>3 DEF ListIdle, Goto, tables, cancels, invocation
<1>4. CASE NoPlacement(j)
  BY <1>4 DEF NoPlacement, GiveUp, Goto, tables, cancels
<1>5. CASE Claim(j)
  BY <1>5, SMTT(30) DEF Claim, Goto, BeginSpawn, GiveUp, Placements
<1>6. CASE PickPinned(j)
  BY <1>6 DEF PickPinned, Goto, Placements, tables, cancels
<1>7. CASE PinRefused(j)
  BY <1>7 DEF PinRefused, GiveUp, Goto, tables, cancels
<1>8. CASE PinKill(j)
  BY <1>8 DEF PinKill, BeginSpawn, Goto, cancels, invocation
<1>9. CASE PinClaim(j)
  BY <1>9 DEF PinClaim, Goto, cancels, invocation
<1>10. ASSUME NEW s \in Slot, PinCheck(j, s)
      PROVE  SignalInv'
  BY <1>10, SMTT(30) DEF PinCheck, Goto, BeginSpawn, tables, cancels,
     invocation
<1>11. CASE Take(j)
  <2>1. AgedUnderImage'
    BY <1>11 DEF Take, Goto, BeginSpawn, GiveUp, cancels
  <2>2. WokenAwaits'
    BY <1>11 DEF Take, Goto, BeginSpawn, GiveUp, cancels
  <2>3. ImagesAlone'
    BY <1>11 DEF Take, Goto, BeginSpawn, GiveUp, cancels
  <2>4. SignalKept'
    BY <1>11 DEF Take, Goto, BeginSpawn, GiveUp, cancels
  <2>5. RegisteredLives'
    BY <1>11 DEF Take, Goto, BeginSpawn, GiveUp, cancels
  <2> QED
    BY <2>1, <2>2, <2>3, <2>4, <2>5
<1>12. CASE Mark(j)
  BY <1>12 DEF Mark, Goto, cancels, invocation
<1>13. CASE RamRefused(j)
  BY <1>13 DEF RamRefused, Goto, tables, cancels, frame
<1>14. CASE RunOk(j)
  BY <1>14, SMTT(30) DEF RunOk, Goto, BeginSpawn, tables, cancels
<1>15. CASE RunFail(j)
  BY <1>15 DEF RunFail, BeginSpawn, Goto, ReapSlot
<1>16. CASE Retry(j)
  BY <1>16 DEF Retry, Goto, Retryable, tables, cancels, frame
<1>17. CASE Finish(j)
  BY <1>17 DEF Finish, Goto, Retryable, tables, frame, invocation
<1>18. CASE TpStop(j)
  <2>1. PICK stopped \in SUBSET place[j] : TpStop(j)!2!(stopped)
    BY <1>18, Zenon DEF TpStop
  <2>2. \/ pc' = [pc EXCEPT ![j] = "tpMark"] /\ verdict' = verdict
        \/ /\ pc' = [pc EXCEPT ![j] = "verdict"]
           /\ verdict' = [verdict EXCEPT ![j] = "error"]
    BY <2>1, Zenon DEF Goto, GiveUp
  <2>3. /\ pc[j] = "tp"
        /\ UNCHANGED <<checkouts, aged, registered, woken, why, place>>
    BY <1>18 DEF TpStop, cancels
  <2> QED
    BY <2>2, <2>3
<1>19. CASE TpMark(j)
  BY <1>19 DEF TpMark, Goto, cancels, frame, invocation
<1>20. CASE TpSpawn(j)
  BY <1>20 DEF TpSpawn, Goto, tables, cancels, frame
<1>21. CASE TpRun(j)
  BY <1>21 DEF TpRun, Goto, tables, frame
<1>22. CASE TpRestore(j)
  BY <1>22 DEF TpRestore, Goto, cancels, invocation
<1>23. CASE TpClear(j)
  BY <1>23 DEF TpClear, Goto, cancels, frame, invocation
<1> QED
  BY <1>1, <1>2, <1>3, <1>4, <1>5, <1>6, <1>7, <1>8, <1>9, <1>10, <1>11,
     <1>12, <1>13, <1>14, <1>15, <1>16, <1>17, <1>18, <1>19, <1>20, <1>21,
     <1>22, <1>23 DEF Invoke

\* Cancel signals are kept: the steps of evict_all and preload_slots.
LEMMA WarmSignals ==
    ASSUME TypeOK, AtSlot, CheckoutHeld, SignalInv, NEW w \in Warmer, Warm(w)
    PROVE  SignalInv'
<1> w \in Task
  BY DEF Task
<1> USE SlotPoolAssumption DEF TypeOK, AtSlot, Working, SignalInv,
            AgedUnderImage, WokenAwaits, ImagesAlone, RegisteredLives,
            SignalKept, Leaving, Awaiting, SpawnStep, Task
<1>1. CASE PreloadTake(w)
  BY <1>1 DEF PreloadTake, Goto, cancels, invocation
<1>2. CASE WarmMark(w)
  BY <1>2 DEF WarmMark, Goto, cancels, frame, invocation
<1>3. CASE WarmRpc(w)
  BY <1>3 DEF WarmRpc, Goto, tables, cancels, invocation
<1>4. CASE WarmDone(w)
  BY <1>4 DEF WarmDone, Goto, tables, cancels, invocation
<1>5. ASSUME NEW s \in Slot, EvictTake(w, s)
      PROVE  SignalInv'
  BY <1>5, SMTT(30) DEF EvictTake, Goto, cancels, invocation
<1>6. ASSUME NEW s \in Slot, PreloadEvict(w, s)
      PROVE  SignalInv'
  BY <1>6 DEF PreloadEvict, Goto, cancels, invocation
<1>7. ASSUME NEW s \in Slot, PreloadClaim(w, s)
      PROVE  SignalInv'
  BY <1>7 DEF PreloadClaim, Goto, cancels, invocation
<1>8. ASSUME NEW s \in Slot, PreloadSkip(w, s)
      PROVE  SignalInv'
  BY <1>8 DEF PreloadSkip, tables, cancels, invocation
<1> QED
  BY <1>1, <1>2, <1>3, <1>4, <1>5, <1>6, <1>7, <1>8 DEF Warm

\* Cancel signals are kept: requests from the session and time passing.
LEMMA EnvironmentSignals ==
    ASSUME TypeOK, AtSlot, CheckoutHeld, SignalInv, Environment
    PROVE  SignalInv'
<1> USE SlotPoolAssumption DEF TypeOK, AtSlot, Working, SignalInv,
            AgedUnderImage, WokenAwaits, ImagesAlone, RegisteredLives,
            SignalKept, Leaving, Awaiting, SpawnStep, Task
<1>1. ASSUME NEW j \in Job, Submit(j)
      PROVE  SignalInv'
  BY <1>1 DEF Submit, Goto, tables, frame, invocation
<1>2. ASSUME NEW j \in Job, Cancel(j)
      PROVE  SignalInv'
  BY <1>2 DEF Cancel, Notify, tables, frame, invocation
<1>3. ASSUME NEW j \in Job, Token(j)
      PROVE  SignalInv'
  BY <1>3 DEF Token, tables, cancels, frame
<1>4. ASSUME NEW s \in Slot, Age(s)
      PROVE  SignalInv'
  BY <1>4 DEF Age, cancels, frame, invocation
<1>5. ASSUME NEW w \in Warmer, StartEvictAll(w)
      PROVE  SignalInv'
  BY <1>5 DEF StartEvictAll, Goto, tables, cancels, invocation
<1>6. ASSUME NEW w \in Warmer, StartPreload(w)
      PROVE  SignalInv'
  BY <1>6 DEF StartPreload, Goto, tables, cancels, invocation
<1> QED
  BY <1>1, <1>2, <1>3, <1>4, <1>5, <1>6 DEF Environment

\* Every step keeps the cancel signals.
LEMMA NextSignals ==
    TypeOK /\ AtSlot /\ CheckoutHeld /\ SignalInv /\ [Next]_vars => (SignalInv)'
<1> SUFFICES ASSUME TypeOK, AtSlot, CheckoutHeld, SignalInv, [Next]_vars
             PROVE  (SignalInv)'
  OBVIOUS
<1>1. CASE UNCHANGED vars
  BY <1>1 DEF vars, SignalInv, AgedUnderImage, WokenAwaits, ImagesAlone, RegisteredLives, SignalKept, Leaving, Awaiting, SpawnStep
<1>2. ASSUME NEW j \in Job, JobStepOf(j)
      PROVE  (SignalInv)'
  BY <1>2, ReconcileSignals, SpawnSignals, ReturnSignals, InvokeSignals DEF
     JobStepOf, Task
<1>3. ASSUME NEW m \in Maintainer, MaintainerStep(m)
      PROVE  (SignalInv)'
  <2>1. CASE StartReconcile(m)
    BY <2>1, SlotPoolAssumption, Labels DEF StartReconcile, Goto, tables,
       cancels, frame, invocation, Task, SignalInv, AgedUnderImage,
       WokenAwaits, ImagesAlone, RegisteredLives, SignalKept, Leaving,
       Awaiting, SpawnStep
  <2> QED
    BY <1>3, <2>1, ReconcileSignals, SpawnSignals DEF MaintainerStep, Task
<1>4. ASSUME NEW w \in Warmer, WarmerStep(w)
      PROVE  (SignalInv)'
  BY <1>4, ReturnSignals, WarmSignals DEF WarmerStep, Task
<1>5. CASE Environment
  BY <1>5, EnvironmentSignals
<1> QED
  BY <1>1, <1>2, <1>3, <1>4, <1>5 DEF Next

\* The strengthened invariant says what CancelsInFlight says.
LEMMA SignalsReach == SignalInv => CancelsInFlight
BY DEF SignalInv, CancelsInFlight, SignalKept, RegisteredLives, Leaving,
       Awaiting, SpawnStep

\* No exit path of an invoke leaks a cancel signal, and no retry or reclaim
\* takes the signal away from an invoke that waits for it.
THEOREM CancelsReach == Spec => []CancelsInFlight
<1>1. Init => SignalInv
  BY InitSignals
<1>2. TypeOK /\ AtSlot /\ CheckoutHeld /\ SignalInv /\ [Next]_vars => SignalInv'
  BY NextSignals
<1>3. SignalInv => CancelsInFlight
  BY SignalsReach
<1> QED
  BY <1>1, <1>2, <1>3, TypeCorrect, CheckoutsAreHeld, PTL DEF Spec

(***************************************************************************)
(* 3. The contract                                                         *)
(***************************************************************************)

-----------------------------------------------------------------------------
(* The invariant *)

\* The invoke has not come to an outcome yet.
Open(j) ==
    \/ pc[j] \in {"idle", "prep", "pick", "claim", "pin", "pinKill", "take",
                  "mark", "run", "tp", "tpMark", "tpSpawn", "tpRun"}
    \/ pc[j] \in ReconcileStep
    \/ pc[j] \in SpawnStep /\ why[j] # "restore"

\* An attempt has a verdict from its last step on, and a new one has none.
VerdictAtEnd == \A j \in Job : verdict[j] = "none" <=> Open(j)

\* An invoke that has returned was not to be retried.
ReturnsForGood == \A j \in Job : pc[j] = "done" => ~Retryable(j)

\* Before an attempt runs, the client has not heard of the invoke.
SilentBefore ==
    \A j \in Job : Open(j) /\ streamed[j] # {} => pc[j] \in {"run", "tpRun"}

\* Only a job without a pin ever starts over.
PinnedOnce == \A j \in Job : Pin[j] # None => skip[j] = {}

\* The slots an unpinned job has listed are new to it.
ListedAnew ==
    \A j \in Job : pc[j] = "claim" => Pin[j] = None /\ todo[j] \cap skip[j] = {}

\* The slots of a pinned job hold its pin while it checks them one by one.
PinChosen ==
    \A j \in Job :
        \/ pc[j] \in {"pin", "pinKill"}
        \/ pc[j] \in SpawnStep /\ why[j] = "pin"
        => Pin[j] # None /\ Pin[j] \in place[j]

\* What an attempt has claimed may be run on.
ClaimedWell ==
    \A j \in Job :
        pc[j] \in {"take", "mark", "tp", "tpMark", "tpSpawn"} =>
            /\ place[j] # {} /\ place[j] \cap skip[j] = {}
            /\ Pin[j] # None => Pin[j] \in place[j]

AttemptInv ==
    /\ VerdictAtEnd /\ ReturnsForGood /\ SilentBefore /\ PinnedOnce
    /\ ListedAnew /\ PinChosen /\ ClaimedWell

-----------------------------------------------------------------------------
(* What the longer actions do to an attempt *)

\* The end of a spawn: its caller goes on, or gives the attempt up.
LEMMA Pinged ==
    ASSUME TypeOK, NEW t \in Task, PingOk(t) \/ PingFail(t)
    PROVE  /\ pc[t] = "ping" /\ why' = [why EXCEPT ![t] = None]
           /\ UNCHANGED <<place, skip, attempt, streamed>>
           /\ \/ /\ why[t] \in {"missing", "stale"}
                 /\ UNCHANGED <<todo, verdict>>
                 /\ \E l \in {"stale", "prep", "respawn", "idle"} :
                       Goto(t, l) /\ (l = "idle" => t \notin Job)
              \/ /\ why[t] \in {"claimMiss", "pin"} /\ GiveUp(t, "error")
              \/ why[t] = "pin" /\ Goto(t, "pin") /\ UNCHANGED <<todo, verdict>>
              \/ /\ why[t] = "restore" /\ Goto(t, "clear")
                 /\ UNCHANGED <<todo, verdict>>
<1>1. IF why[t] = "stale" THEN TRUE
      ELSE \E l \in {"prep", "respawn", "idle"} :
             NextMissing(t) = l /\ (l = "idle" => t \notin Job)
  BY DEF NextMissing, AfterReconcile
<1>2. CASE PingOk(t)
  BY <1>1, <1>2 DEF PingOk, TypeOK
<1>3. CASE PingFail(t)
  BY <1>1, <1>3 DEF PingFail, TypeOK
<1> QED
  BY <1>2, <1>3

\* The worker is taken, or its slot has none.
LEMMA Taken ==
    ASSUME NEW j \in Job, Take(j)
    PROVE  /\ pc[j] = "take" /\ UNCHANGED <<place, skip, attempt, streamed>>
           /\ \/ Goto(j, "mark") /\ UNCHANGED <<why, todo, verdict>>
              \/ /\ Goto(j, "reap") /\ why' = [why EXCEPT ![j] = "claimMiss"]
                 /\ UNCHANGED <<todo, verdict>>
              \/ GiveUp(j, "error") /\ UNCHANGED why
BY DEF Take, BeginSpawn

\* The siblings are stopped, or one of them is missing.
LEMMA Stopped ==
    ASSUME NEW j \in Job, TpStop(j)
    PROVE  /\ pc[j] = "tp" /\ UNCHANGED <<why, place, skip, attempt, streamed>>
           /\ \/ Goto(j, "tpMark") /\ UNCHANGED <<todo, verdict>>
              \/ GiveUp(j, "error")
<1>1. PICK stopped \in SUBSET place[j] : TpStop(j)!2!(stopped)
  BY Zenon DEF TpStop
<1> QED
  BY <1>1, Zenon DEF TpStop

-----------------------------------------------------------------------------
(* Attempts *)

\* No attempt has begun initially.
LEMMA InitAttempt == Init => AttemptInv
BY SlotPoolAssumption DEF Init, AttemptInv, VerdictAtEnd, ReturnsForGood,
   SilentBefore, PinnedOnce, ListedAnew, PinChosen, ClaimedWell, Open,
   Retryable, SpawnStep, Task

\* Attempts stay in order: the steps of reconcile_slots.
LEMMA ReconcileAttempt ==
    ASSUME TypeOK, AtSlot, AttemptInv, NEW t \in Task, Reconcile(t)
    PROVE  AttemptInv'
<1> USE SlotPoolAssumption DEF TypeOK, AttemptInv, VerdictAtEnd, ReturnsForGood,
            SilentBefore, PinnedOnce, ListedAnew, PinChosen, ClaimedWell, Open,
            Retryable, ReconcileStep, SpawnStep, Task
<1>1. CASE ClearOrphanBusy(t)
  BY <1>1 DEF ClearOrphanBusy, Goto, cancels, frame, invocation
<1>2. CASE Reclaim(t)
  BY <1>2 DEF Reclaim, Goto, BeginSpawn, cancels, invocation
<1>3. CASE StaleDone(t)
  BY <1>3 DEF StaleDone, Goto, tables, cancels, frame, invocation
<1>4. CASE FindMissing(t)
  BY <1>4 DEF FindMissing, Goto, AfterReconcile, tables, cancels,
     invocation
<1>5. ASSUME NEW s \in Slot, CancelStale(t, s)
      PROVE  AttemptInv'
  BY <1>5 DEF CancelStale, Goto, Notify, tables, invocation
<1>6. ASSUME NEW s \in Slot, RespawnMissing(t, s)
      PROVE  AttemptInv'
  BY <1>6 DEF RespawnMissing, BeginSpawn, Goto, tables, cancels, invocation
<1> QED
  BY <1>1, <1>2, <1>3, <1>4, <1>5, <1>6 DEF Reconcile

\* Attempts stay in order: the steps of spawn_worker.
LEMMA SpawnAttempt ==
    ASSUME TypeOK, AtSlot, AttemptInv, NEW t \in Task, Spawn(t)
    PROVE  AttemptInv'
<1> USE SlotPoolAssumption DEF TypeOK, AttemptInv, VerdictAtEnd, ReturnsForGood,
            SilentBefore, PinnedOnce, ListedAnew, PinChosen, ClaimedWell, Open,
            Retryable, ReconcileStep, SpawnStep, Task
<1>1. CASE Reap(t)
  BY <1>1 DEF Reap, Goto, ReapSlot, cancels, invocation
<1>2. CASE Create(t)
  BY <1>2 DEF Create, Goto, tables, cancels, invocation
<1>3. CASE PingOk(t) \/ PingFail(t)
  <2>1. /\ pc[t] = "ping" /\ why' = [why EXCEPT ![t] = None]
        /\ UNCHANGED <<place, skip, attempt, streamed>>
    BY <1>3, Pinged
  <2>2. CASE why[t] \in {"missing", "stale"} /\ UNCHANGED <<todo, verdict>>
    <3>1. PICK l \in {"stale", "prep", "respawn", "idle"} :
            Goto(t, l) /\ (l = "idle" => t \notin Job)
      BY <1>3, <2>2, Pinged
    <3> QED
      BY <2>1, <2>2, <3>1 DEF Goto
  <2>3. CASE why[t] \in {"claimMiss", "pin"} /\ GiveUp(t, "error")
    BY <2>1, <2>3 DEF Goto, GiveUp
  <2>4. CASE why[t] = "pin" /\ Goto(t, "pin") /\ UNCHANGED <<todo, verdict>>
    BY <2>1, <2>4 DEF Goto
  <2>5. CASE /\ why[t] = "restore" /\ Goto(t, "clear")
             /\ UNCHANGED <<todo, verdict>>
    BY <2>1, <2>5 DEF Goto
  <2> QED
    BY <1>3, <2>2, <2>3, <2>4, <2>5, Pinged
<1> QED
  BY <1>1, <1>2, <1>3 DEF Spawn

\* Attempts stay in order: the steps of return_worker.
LEMMA ReturnAttempt ==
    ASSUME TypeOK, AtSlot, AttemptInv, NEW t \in Task, Return(t)
    PROVE  AttemptInv'
<1> USE SlotPoolAssumption DEF TypeOK, AttemptInv, VerdictAtEnd, ReturnsForGood,
            SilentBefore, PinnedOnce, ListedAnew, PinChosen, ClaimedWell, Open,
            Retryable, ReconcileStep, SpawnStep, Task
<1>1. CASE ClearCheckout(t)
  BY <1>1 DEF ClearCheckout, Goto, cancels, frame, invocation
<1>2. CASE PutBack(t)
  BY <1>2 DEF PutBack, Goto, cancels, invocation
<1> QED
  BY <1>1, <1>2 DEF Return

\* Attempts stay in order: the steps of invoke and invoke_image.
LEMMA InvokeAttempt ==
    ASSUME TypeOK, AtSlot, AttemptInv, NEW j \in Job, Invoke(j)
    PROVE  AttemptInv'
<1> j \in Task
  BY DEF Task
<1> USE SlotPoolAssumption DEF TypeOK, AttemptInv, VerdictAtEnd, ReturnsForGood,
            SilentBefore, PinnedOnce, ListedAnew, PinChosen, ClaimedWell, Open,
            Retryable, ReconcileStep, SpawnStep, Task
<1>1. CASE Placing(j)
  BY <1>1 DEF Placing, Goto, tables, cancels, frame, invocation
<1>2. CASE PlacingAborted(j)
  BY <1>2 DEF PlacingAborted, GiveUp, Goto, tables
<1>3. CASE ListIdle(j)
  BY <1>3 DEF ListIdle, Goto, tables, cancels, invocation
<1>4. CASE NoPlacement(j)
  BY <1>4 DEF NoPlacement, GiveUp, Goto, tables, cancels
<1>5. CASE Claim(j)
  BY <1>5 DEF Claim, Goto, BeginSpawn, GiveUp, Placements
<1>6. CASE PickPinned(j)
  BY <1>6 DEF PickPinned, Goto, Placements, tables, cancels
<1>7. CASE PinRefused(j)
  BY <1>7 DEF PinRefused, GiveUp, Goto, tables, cancels
<1>8. CASE PinKill(j)
  BY <1>8 DEF PinKill, BeginSpawn, Goto, cancels, invocation
<1>9. CASE PinClaim(j)
  BY <1>9 DEF PinClaim, Goto, cancels, invocation
<1>10. ASSUME NEW s \in Slot, PinCheck(j, s)
      PROVE  AttemptInv'
  BY <1>10 DEF PinCheck, Goto, BeginSpawn, tables, cancels,
     invocation
<1>11. CASE Take(j)
  BY <1>11, Taken DEF Goto, GiveUp
<1>12. CASE Mark(j)
  BY <1>12 DEF Mark, Goto, cancels, invocation
<1>13. CASE RamRefused(j)
  BY <1>13 DEF RamRefused, Goto, tables, cancels, frame
<1>14. CASE RunOk(j)
  BY <1>14 DEF RunOk, Goto, BeginSpawn, tables, cancels
<1>15. CASE RunFail(j)
  BY <1>15 DEF RunFail, BeginSpawn, Goto, ReapSlot
<1>16. CASE Retry(j)
  BY <1>16 DEF Retry, Goto, tables, cancels, frame
<1>17. CASE Finish(j)
  BY <1>17 DEF Finish, Goto, tables, frame, invocation
<1>18. CASE TpStop(j)
  <2>1. /\ pc[j] = "tp"
        /\ UNCHANGED <<why, place, skip, attempt, streamed>>
    BY <1>18, Stopped
  <2>2. CASE Goto(j, "tpMark") /\ UNCHANGED <<todo, verdict>>
    BY <2>1, <2>2 DEF Goto
  <2>3. CASE GiveUp(j, "error")
    BY <2>1, <2>3 DEF Goto, GiveUp
  <2> QED
    BY <1>18, <2>2, <2>3, Stopped
<1>19. CASE TpMark(j)
  BY <1>19 DEF TpMark, Goto, cancels, frame, invocation
<1>20. CASE TpSpawn(j)
  BY <1>20 DEF TpSpawn, Goto, tables, cancels, frame
<1>21. CASE TpRun(j)
  BY <1>21 DEF TpRun, Goto, tables, frame
<1>22. CASE TpRestore(j)
  BY <1>22 DEF TpRestore, Goto, cancels, invocation
<1>23. CASE TpClear(j)
  BY <1>23 DEF TpClear, Goto, cancels, frame, invocation
<1> QED
  BY <1>1, <1>2, <1>3, <1>4, <1>5, <1>6, <1>7, <1>8, <1>9, <1>10, <1>11,
     <1>12, <1>13, <1>14, <1>15, <1>16, <1>17, <1>18, <1>19, <1>20, <1>21,
     <1>22, <1>23 DEF Invoke

\* Attempts stay in order: the steps of evict_all and preload_slots.
LEMMA WarmAttempt ==
    ASSUME TypeOK, AtSlot, AttemptInv, NEW w \in Warmer, Warm(w)
    PROVE  AttemptInv'
<1> w \in Task
  BY DEF Task
<1> USE SlotPoolAssumption DEF TypeOK, AttemptInv, VerdictAtEnd, ReturnsForGood,
            SilentBefore, PinnedOnce, ListedAnew, PinChosen, ClaimedWell, Open,
            Retryable, ReconcileStep, SpawnStep, Task
<1>1. CASE PreloadTake(w)
  BY <1>1 DEF PreloadTake, Goto, cancels, invocation
<1>2. CASE WarmMark(w)
  BY <1>2 DEF WarmMark, Goto, cancels, frame, invocation
<1>3. CASE WarmRpc(w)
  BY <1>3 DEF WarmRpc, Goto, tables, cancels, invocation
<1>4. CASE WarmDone(w)
  BY <1>4 DEF WarmDone, Goto, tables, cancels, invocation
<1>5. ASSUME NEW s \in Slot, EvictTake(w, s)
      PROVE  AttemptInv'
  BY <1>5 DEF EvictTake, Goto, cancels, invocation
<1>6. ASSUME NEW s \in Slot, PreloadEvict(w, s)
      PROVE  AttemptInv'
  BY <1>6 DEF PreloadEvict, Goto, cancels, invocation
<1>7. ASSUME NEW s \in Slot, PreloadClaim(w, s)
      PROVE  AttemptInv'
  BY <1>7 DEF PreloadClaim, Goto, cancels, invocation
<1>8. ASSUME NEW s \in Slot, PreloadSkip(w, s)
      PROVE  AttemptInv'
  BY <1>8 DEF PreloadSkip, tables, cancels, invocation
<1> QED
  BY <1>1, <1>2, <1>3, <1>4, <1>5, <1>6, <1>7, <1>8 DEF Warm

\* Attempts stay in order: requests from the session and time passing.
LEMMA EnvironmentAttempt ==
    ASSUME TypeOK, AtSlot, AttemptInv, Environment
    PROVE  AttemptInv'
<1> USE SlotPoolAssumption DEF TypeOK, AttemptInv, VerdictAtEnd, ReturnsForGood,
            SilentBefore, PinnedOnce, ListedAnew, PinChosen, ClaimedWell, Open,
            Retryable, ReconcileStep, SpawnStep, Task
<1>1. ASSUME NEW j \in Job, Submit(j)
      PROVE  AttemptInv'
  BY <1>1 DEF Submit, Goto, tables, frame, invocation
<1>2. ASSUME NEW j \in Job, Cancel(j)
      PROVE  AttemptInv'
  BY <1>2 DEF Cancel, Notify, tables, frame, invocation
<1>3. ASSUME NEW j \in Job, Token(j)
      PROVE  AttemptInv'
  BY <1>3 DEF Token, tables, cancels, frame
<1>4. ASSUME NEW s \in Slot, Age(s)
      PROVE  AttemptInv'
  BY <1>4 DEF Age, cancels, frame, invocation
<1>5. ASSUME NEW w \in Warmer, StartEvictAll(w)
      PROVE  AttemptInv'
  BY <1>5 DEF StartEvictAll, Goto, tables, cancels, invocation
<1>6. ASSUME NEW w \in Warmer, StartPreload(w)
      PROVE  AttemptInv'
  BY <1>6 DEF StartPreload, Goto, tables, cancels, invocation
<1> QED
  BY <1>1, <1>2, <1>3, <1>4, <1>5, <1>6 DEF Environment

\* Every step keeps the attempts in order.
LEMMA NextAttempt ==
    TypeOK /\ AtSlot /\ AttemptInv /\ [Next]_vars => (AttemptInv)'
<1> SUFFICES ASSUME TypeOK, AtSlot, AttemptInv, [Next]_vars
             PROVE  (AttemptInv)'
  OBVIOUS
<1>1. CASE UNCHANGED vars
  BY <1>1 DEF vars, AttemptInv, VerdictAtEnd, ReturnsForGood,
            SilentBefore, PinnedOnce, ListedAnew, PinChosen, ClaimedWell, Open,
            Retryable, ReconcileStep, SpawnStep
<1>2. ASSUME NEW j \in Job, JobStepOf(j)
      PROVE  (AttemptInv)'
  BY <1>2, ReconcileAttempt, SpawnAttempt, ReturnAttempt, InvokeAttempt DEF
     JobStepOf, Task
<1>3. ASSUME NEW m \in Maintainer, MaintainerStep(m)
      PROVE  (AttemptInv)'
  <2>1. CASE StartReconcile(m)
    BY <2>1, SlotPoolAssumption, Labels DEF StartReconcile, Goto, tables,
       cancels, frame, invocation, AttemptInv, VerdictAtEnd, ReturnsForGood,
            SilentBefore, PinnedOnce, ListedAnew, PinChosen, ClaimedWell, Open,
            Retryable, ReconcileStep, SpawnStep, Task
  <2> QED
    BY <1>3, <2>1, ReconcileAttempt, SpawnAttempt DEF MaintainerStep, Task
<1>4. ASSUME NEW w \in Warmer, WarmerStep(w)
      PROVE  (AttemptInv)'
  BY <1>4, ReturnAttempt, WarmAttempt DEF WarmerStep, Task
<1>5. CASE Environment
  BY <1>5, EnvironmentAttempt
<1> QED
  BY <1>1, <1>2, <1>3, <1>4, <1>5 DEF Next
-----------------------------------------------------------------------------
(* The refinement *)

\* A job that a step does not touch looks to its caller as before.
Untouched(j) ==
    /\ pc'[j] = pc[j]
    /\ verdict'[j] = verdict[j] /\ attempt'[j] = attempt[j]
    /\ streamed'[j] = streamed[j] /\ place'[j] = place[j] /\ skip'[j] = skip[j]

\* The step of one task changes what the caller of that job sees, at most.
LEMMA Lifted ==
    ASSUME TypeOK, TypeOK', NEW j \in Job, \A k \in Job \ {j} : Untouched(k)
    PROVE  /\ stages' = [stages EXCEPT ![j] = stages'[j]]
           /\ places' = [places EXCEPT ![j] = places'[j]]
           /\ skip' = [skip EXCEPT ![j] = skip'[j]]
           /\ heard' = [heard EXCEPT ![j] = heard'[j]]
           /\ results' = [results EXCEPT ![j] = results'[j]]
<1>1. ASSUME NEW k \in Job \ {j}
      PROVE  /\ stages'[k] = stages[k] /\ places'[k] = places[k]
             /\ heard'[k] = heard[k] /\ results'[k] = results[k]
             /\ skip'[k] = skip[k]
  <2>1. Stage(k)' = Stage(k) /\ Settled(k)' = Settled(k)
    BY DEF Untouched, Stage, Settled, Retryable
  <2> QED
    BY <2>1 DEF Untouched, stages, places, heard, results
<1>2. /\ DOMAIN stages = Job /\ stages = [k \in Job |-> stages[k]]
      /\ stages' = [k \in Job |-> stages'[k]]
  BY DEF stages
<1>3. places = [k \in Job |-> places[k]] /\ places' = [k \in Job |-> places'[k]]
  BY DEF places
<1>4. heard = [k \in Job |-> heard[k]] /\ heard' = [k \in Job |-> heard'[k]]
  BY DEF heard
<1>5. /\ results = [k \in Job |-> results[k]]
      /\ results' = [k \in Job |-> results'[k]]
  BY DEF results
<1>6. skip = [k \in Job |-> skip[k]] /\ skip' = [k \in Job |-> skip'[k]]
  BY DEF TypeOK
<1> QED
  BY <1>1, <1>2, <1>3, <1>4, <1>5, <1>6

\* The steps of the contract, for one job.
Keeps(j) ==
    /\ stages'[j] = stages[j] /\ places'[j] = places[j] /\ skip'[j] = skip[j]
    /\ heard'[j] = heard[j] /\ results'[j] = results[j]

Accepts(j) ==
    /\ stages[j] = "new" /\ stages'[j] = "waiting"
    /\ places'[j] = places[j] /\ skip'[j] = skip[j]
    /\ heard'[j] = heard[j] /\ results'[j] = results[j]

Runs(j) ==
    /\ stages[j] = "waiting" /\ stages'[j] = "running"
    /\ places'[j] # {} /\ places'[j] \subseteq Slot
    /\ places'[j] \cap skip[j] = {}
    /\ Pin[j] # None => Pin[j] \in places'[j]
    /\ skip'[j] = skip[j] /\ heard'[j] = heard[j] /\ results'[j] = results[j]

Speaks(j) ==
    /\ stages[j] = "running" /\ heard[j] = FALSE /\ heard'[j] = TRUE
    /\ stages'[j] = stages[j] /\ places'[j] = places[j] /\ skip'[j] = skip[j]
    /\ results'[j] = results[j]

StartsOver(j) ==
    /\ stages[j] = "running" /\ heard[j] = FALSE /\ Pin[j] = None
    /\ stages'[j] = "waiting" /\ places'[j] = {}
    /\ skip'[j] = skip[j] \cup places[j]
    /\ heard'[j] = heard[j] /\ results'[j] = results[j]

Ends(j) ==
    /\ stages[j] \in {"waiting", "running"} /\ stages'[j] = "ended"
    /\ places'[j] = {}
    /\ results'[j] \in {"ok", "failed"}
    /\ results'[j] = "ok" => stages[j] = "running"
    /\ skip'[j] = skip[j] /\ heard'[j] = heard[j]

Steps(j) ==
    \/ Keeps(j) \/ Accepts(j) \/ Runs(j)
    \/ Speaks(j) \/ StartsOver(j) \/ Ends(j)

\* A step of one job is a step of the contract.
LEMMA Mapped ==
    ASSUME TypeOK, TypeOK', NEW j \in Job, \A k \in Job \ {j} : Untouched(k),
           Steps(j)
    PROVE  [Contract!ContractNext]_(Contract!contractVars)
<1> /\ DOMAIN stages = Job /\ DOMAIN places = Job /\ DOMAIN skip = Job
    /\ DOMAIN heard = Job /\ DOMAIN results = Job
  BY DEF stages, places, heard, results, TypeOK
<1>0. /\ stages = [stages EXCEPT ![j] = stages[j]]
      /\ places = [places EXCEPT ![j] = places[j]]
      /\ skip = [skip EXCEPT ![j] = skip[j]]
      /\ heard = [heard EXCEPT ![j] = heard[j]]
      /\ results = [results EXCEPT ![j] = results[j]]
  BY DEF stages, places, heard, results, TypeOK
<1>1. CASE Keeps(j)
  BY <1>0, <1>1, Lifted DEF Keeps, Contract!contractVars
<1>2. CASE Accepts(j)
  <2>1. Contract!Accept(j)
    BY <1>0, <1>2, Lifted DEF Accepts, Contract!Accept
  <2> QED
    BY <2>1 DEF Contract!ContractNext
<1>3. CASE Runs(j)
  <2>1. Contract!Run(j, places'[j])
    BY <1>0, <1>3, Lifted DEF Runs, Contract!Run
  <2> QED
    BY <1>3, <2>1 DEF Runs, Contract!ContractNext
<1>4. CASE Speaks(j)
  <2>1. Contract!Speak(j)
    BY <1>0, <1>4, Lifted DEF Speaks, Contract!Speak
  <2> QED
    BY <2>1 DEF Contract!ContractNext
<1>5. CASE StartsOver(j)
  <2>1. Contract!StartOver(j)
    BY <1>0, <1>5, Lifted DEF StartsOver, Contract!StartOver
  <2> QED
    BY <2>1 DEF Contract!ContractNext
<1>6. CASE Ends(j)
  <2>1. Contract!End(j, results'[j])
    BY <1>0, <1>6, Lifted DEF Ends, Contract!End
  <2> QED
    BY <1>6, <2>1 DEF Ends, Contract!ContractNext
<1> QED
  BY <1>1, <1>2, <1>3, <1>4, <1>5, <1>6 DEF Steps

\* The step of a task that is not a job is nothing to any caller.
LEMMA NoJob ==
    ASSUME \A k \in Job : Untouched(k), TypeOK, TypeOK'
    PROVE  UNCHANGED Contract!contractVars
<1>1. ASSUME NEW k \in Job
      PROVE  /\ stages'[k] = stages[k] /\ places'[k] = places[k]
             /\ heard'[k] = heard[k] /\ results'[k] = results[k]
             /\ skip'[k] = skip[k]
  <2>1. Stage(k)' = Stage(k) /\ Settled(k)' = Settled(k)
    BY DEF Untouched, Stage, Settled, Retryable
  <2> QED
    BY <2>1 DEF Untouched, stages, places, heard, results
<1> QED
  BY <1>1 DEF Contract!contractVars, stages, places, heard, results, TypeOK

\* What the step of a task may be to the callers of the jobs.
Seen(t) == (\A k \in Job \ {t} : Untouched(k)) /\ (t \in Job => Steps(t))

\* An invoke that is neither new nor running waits, whatever it waits for.
LEMMA Waits ==
    ASSUME AttemptInv, NEW j \in Job, Open(j), Open(j)',
           pc[j] \notin {"idle", "run", "tpRun"},
           pc'[j] \notin {"idle", "run", "tpRun"},
           verdict'[j] = verdict[j], skip'[j] = skip[j],
           streamed'[j] = streamed[j]
    PROVE  Keeps(j)
BY DEF AttemptInv, VerdictAtEnd, Keeps, stages, places, heard, results, Stage,
       Settled, Retryable

\* A worker is set to work on what the attempt has claimed.
LEMMA WaitsToRun ==
    ASSUME TypeOK, AttemptInv, NEW j \in Job, pc[j] \in {"mark", "tpSpawn"},
           pc'[j] \in {"run", "tpRun"},
           verdict'[j] = verdict[j], skip'[j] = skip[j],
           streamed'[j] = streamed[j],
           place'[j] = place[j]
    PROVE  Runs(j)
<1>1. verdict[j] = "none"
  BY DEF AttemptInv, VerdictAtEnd, Open
<1>2. /\ Stage(j) = "waiting" /\ Stage(j)' = "running"
      /\ ~Settled(j) /\ ~Settled(j)'
  BY <1>1 DEF Stage, Settled, Retryable
<1> QED
  BY <1>2 DEF AttemptInv, ClaimedWell, Runs, stages, places, heard, results,
     TypeOK

\* Cleaning up after a verdict is no affair of the caller.
LEMMA Cleans ==
    ASSUME AttemptInv, NEW j \in Job, ~Open(j), pc'[j] # "idle",
           verdict'[j] = verdict[j], skip'[j] = skip[j],
           streamed'[j] = streamed[j],
           attempt'[j] = attempt[j], place'[j] = place[j]
    PROVE  Keeps(j)
BY DEF AttemptInv, VerdictAtEnd, Keeps, stages, places, heard, results, Stage,
       Settled, Retryable, Open

\* A verdict ends the invoke, unless it is a crash to be retried.
LEMMA Finishes ==
    ASSUME AttemptInv, NEW j \in Job, Open(j), pc[j] # "idle", pc'[j] # "idle",
           verdict'[j] # "none", skip'[j] = skip[j], streamed'[j] = streamed[j],
           attempt'[j] = attempt[j], place'[j] = place[j],
           verdict'[j] \in {"ok", "crash"} => pc[j] \in {"run", "tpRun"}
    PROVE  Keeps(j) \/ Ends(j)
BY DEF AttemptInv, VerdictAtEnd, Keeps, Ends, stages, places, heard, results,
       Stage, Settled, Retryable

\* What a caller sees: the steps of reconcile_slots.
LEMMA ReconcileSeen ==
    ASSUME TypeOK, AttemptInv, NEW t \in Task, Reconcile(t)
    PROVE  Seen(t)
<1> USE SlotPoolAssumption, Waits, Cleans, Finishes
    DEF TypeOK, Untouched, Seen, Steps, Open, ReconcileStep, SpawnStep, Task
<1>1. CASE ClearOrphanBusy(t)
  BY <1>1 DEF ClearOrphanBusy, Goto, cancels, frame, invocation
<1>2. CASE Reclaim(t)
  BY <1>2 DEF Reclaim, Goto, BeginSpawn, cancels, invocation
<1>3. CASE StaleDone(t)
  BY <1>3 DEF StaleDone, Goto, tables, cancels, frame, invocation
<1>4. CASE FindMissing(t)
  BY <1>4 DEF FindMissing, Goto, AfterReconcile, tables, cancels,
     invocation
<1>5. ASSUME NEW s \in Slot, CancelStale(t, s)
      PROVE  Seen(t)
  BY <1>5 DEF CancelStale, Goto, Notify, tables, invocation
<1>6. ASSUME NEW s \in Slot, RespawnMissing(t, s)
      PROVE  Seen(t)
  BY <1>6 DEF RespawnMissing, BeginSpawn, Goto, tables, cancels, invocation
<1> QED
  BY <1>1, <1>2, <1>3, <1>4, <1>5, <1>6 DEF Reconcile

\* What a caller sees: the steps of spawn_worker.
LEMMA SpawnSeen ==
    ASSUME TypeOK, AttemptInv, NEW t \in Task, Spawn(t)
    PROVE  Seen(t)
<1> USE SlotPoolAssumption, Waits, Cleans, Finishes
    DEF TypeOK, Untouched, Seen, Steps, Open, ReconcileStep, SpawnStep, Task
<1>1. CASE Reap(t)
  BY <1>1 DEF Reap, Goto, ReapSlot, cancels, invocation
<1>2. CASE Create(t)
  BY <1>2 DEF Create, Goto, tables, cancels, invocation
<1>3. CASE PingOk(t) \/ PingFail(t)
  <2>1. /\ pc[t] = "ping" /\ why' = [why EXCEPT ![t] = None]
        /\ UNCHANGED <<place, skip, attempt, streamed>>
    BY <1>3, Pinged
  <2>2. CASE why[t] \in {"missing", "stale"} /\ UNCHANGED <<todo, verdict>>
    <3>1. PICK l \in {"stale", "prep", "respawn", "idle"} :
            Goto(t, l) /\ (l = "idle" => t \notin Job)
      BY <1>3, <2>2, Pinged
    <3> QED
      BY <2>1, <2>2, <3>1 DEF Goto
  <2>3. CASE why[t] \in {"claimMiss", "pin"} /\ GiveUp(t, "error")
    BY <2>1, <2>3 DEF Goto, GiveUp
  <2>4. CASE why[t] = "pin" /\ Goto(t, "pin") /\ UNCHANGED <<todo, verdict>>
    BY <2>1, <2>4 DEF Goto
  <2>5. CASE /\ why[t] = "restore" /\ Goto(t, "clear")
             /\ UNCHANGED <<todo, verdict>>
    BY <2>1, <2>5 DEF Goto
  <2> QED
    BY <1>3, <2>2, <2>3, <2>4, <2>5, Pinged
<1> QED
  BY <1>1, <1>2, <1>3 DEF Spawn

\* What a caller sees: the steps of return_worker.
LEMMA ReturnSeen ==
    ASSUME TypeOK, AttemptInv, NEW t \in Task, Return(t)
    PROVE  Seen(t)
<1> USE SlotPoolAssumption, Waits, Cleans, Finishes
    DEF TypeOK, Untouched, Seen, Steps, Open, ReconcileStep, SpawnStep, Task
<1>1. CASE ClearCheckout(t)
  BY <1>1 DEF ClearCheckout, Goto, cancels, frame, invocation
<1>2. CASE PutBack(t)
  BY <1>2 DEF PutBack, Goto, cancels, invocation
<1> QED
  BY <1>1, <1>2 DEF Return

\* What a caller sees: the steps of invoke and invoke_image.
LEMMA InvokeSeen ==
    ASSUME TypeOK, AttemptInv, NEW j \in Job, Invoke(j)
    PROVE  Seen(j)
<1> j \in Task
  BY DEF Task
<1> USE SlotPoolAssumption, Waits, Cleans, Finishes
    DEF TypeOK, Untouched, Seen, Steps, Open, ReconcileStep, SpawnStep, Task
<1>1. CASE Placing(j)
  BY <1>1 DEF Placing, Goto, tables, cancels, frame, invocation
<1>2. CASE PlacingAborted(j)
  BY <1>2 DEF PlacingAborted, GiveUp, Goto, tables
<1>3. CASE ListIdle(j)
  BY <1>3 DEF ListIdle, Goto, tables, cancels, invocation
<1>4. CASE NoPlacement(j)
  BY <1>4 DEF NoPlacement, GiveUp, Goto, tables, cancels
<1>5. CASE Claim(j)
  BY <1>5 DEF Claim, Goto, BeginSpawn, GiveUp, Placements
<1>6. CASE PickPinned(j)
  BY <1>6 DEF PickPinned, Goto, Placements, tables, cancels
<1>7. CASE PinRefused(j)
  BY <1>7 DEF PinRefused, GiveUp, Goto, tables, cancels
<1>8. CASE PinKill(j)
  BY <1>8 DEF PinKill, BeginSpawn, Goto, cancels, invocation
<1>9. CASE PinClaim(j)
  BY <1>9 DEF PinClaim, Goto, cancels, invocation
<1>10. ASSUME NEW s \in Slot, PinCheck(j, s)
      PROVE  Seen(j)
  BY <1>10 DEF PinCheck, Goto, BeginSpawn, tables, cancels,
     invocation
<1>11. CASE Take(j)
  BY <1>11, Taken DEF Goto, GiveUp
<1>12. CASE Mark(j)
  <2>1. /\ pc[j] = "mark" /\ pc' = [pc EXCEPT ![j] = "run"]
        /\ UNCHANGED <<place, skip, attempt, streamed, verdict>>
    BY <1>12 DEF Mark, Goto, invocation
  <2> QED
    BY <2>1, WaitsToRun
<1>13. CASE RamRefused(j)
  BY <1>13 DEF RamRefused, Goto, tables, cancels, frame
<1>14. CASE RunOk(j)
  BY <1>14 DEF RunOk, Goto, BeginSpawn, tables, cancels
<1>15. CASE RunFail(j)
  BY <1>15 DEF RunFail, BeginSpawn, Goto, ReapSlot
<1>16. CASE Retry(j)
  <2>1. /\ pc[j] = "verdict" /\ Retryable(j) /\ pc' = [pc EXCEPT ![j] = "pick"]
        /\ UNCHANGED streamed /\ attempt' = [attempt EXCEPT ![j] = @ + 1]
        /\ verdict' = [verdict EXCEPT ![j] = "none"]
        /\ place' = [place EXCEPT ![j] = {}]
        /\ skip' = [skip EXCEPT ![j] = skip[j] \cup place[j]]
    BY <1>16 DEF Retry, Goto
  <2>2. Stage(j) = "running" /\ ~Settled(j) /\ streamed[j] = {} /\ Pin[j] = None
    BY <2>1 DEF Stage, Settled, Retryable
  <2>3. Stage(j)' = "waiting" /\ ~Settled(j)'
    BY <2>1 DEF Stage, Settled, Retryable
  <2>4. StartsOver(j)
    BY <2>1, <2>2, <2>3 DEF StartsOver, stages, places, heard, results
  <2> QED
    BY <2>1, <2>4
<1>17. CASE Finish(j)
  BY <1>17 DEF Finish, Goto, tables, frame, invocation
<1>18. CASE TpStop(j)
  <2>1. /\ pc[j] = "tp"
        /\ UNCHANGED <<why, place, skip, attempt, streamed>>
    BY <1>18, Stopped
  <2>2. CASE Goto(j, "tpMark") /\ UNCHANGED <<todo, verdict>>
    BY <2>1, <2>2 DEF Goto
  <2>3. CASE GiveUp(j, "error")
    BY <2>1, <2>3 DEF Goto, GiveUp
  <2> QED
    BY <1>18, <2>2, <2>3, Stopped
<1>19. CASE TpMark(j)
  BY <1>19 DEF TpMark, Goto, cancels, frame, invocation
<1>20. CASE TpSpawn(j)
  <2>1. /\ pc[j] = "tpSpawn"
        /\ UNCHANGED <<why, place, skip, attempt, streamed>>
        /\ \/ pc' = [pc EXCEPT ![j] = "tpRun"] /\ UNCHANGED verdict
           \/ /\ pc' = [pc EXCEPT ![j] = "tpUndo"]
              /\ verdict' = [verdict EXCEPT ![j] = "error"]
    BY <1>20 DEF TpSpawn, Goto, frame
  <2>2. CASE pc' = [pc EXCEPT ![j] = "tpRun"] /\ UNCHANGED verdict
    BY <2>1, <2>2, WaitsToRun
  <2>3. CASE /\ pc' = [pc EXCEPT ![j] = "tpUndo"]
             /\ verdict' = [verdict EXCEPT ![j] = "error"]
    BY <2>1, <2>3
  <2> QED
    BY <2>1, <2>2, <2>3
<1>21. CASE TpRun(j)
  BY <1>21 DEF TpRun, Goto, tables, frame
<1>22. CASE TpRestore(j)
  BY <1>22 DEF TpRestore, Goto, cancels, invocation
<1>23. CASE TpClear(j)
  BY <1>23 DEF TpClear, Goto, cancels, frame, invocation
<1> QED
  BY <1>1, <1>2, <1>3, <1>4, <1>5, <1>6, <1>7, <1>8, <1>9, <1>10, <1>11,
     <1>12, <1>13, <1>14, <1>15, <1>16, <1>17, <1>18, <1>19, <1>20, <1>21,
     <1>22, <1>23 DEF Invoke

\* What a caller sees: the steps of evict_all and preload_slots.
LEMMA WarmSeen ==
    ASSUME TypeOK, AttemptInv, NEW w \in Warmer, Warm(w)
    PROVE  Seen(w)
<1> w \in Task
  BY DEF Task
<1> USE SlotPoolAssumption, Waits, Cleans, Finishes
    DEF TypeOK, Untouched, Seen, Steps, Open, ReconcileStep, SpawnStep, Task
<1>1. CASE PreloadTake(w)
  BY <1>1 DEF PreloadTake, Goto, cancels, invocation
<1>2. CASE WarmMark(w)
  BY <1>2 DEF WarmMark, Goto, cancels, frame, invocation
<1>3. CASE WarmRpc(w)
  BY <1>3 DEF WarmRpc, Goto, tables, cancels, invocation
<1>4. CASE WarmDone(w)
  BY <1>4 DEF WarmDone, Goto, tables, cancels, invocation
<1>5. ASSUME NEW s \in Slot, EvictTake(w, s)
      PROVE  Seen(w)
  BY <1>5 DEF EvictTake, Goto, cancels, invocation
<1>6. ASSUME NEW s \in Slot, PreloadEvict(w, s)
      PROVE  Seen(w)
  BY <1>6 DEF PreloadEvict, Goto, cancels, invocation
<1>7. ASSUME NEW s \in Slot, PreloadClaim(w, s)
      PROVE  Seen(w)
  BY <1>7 DEF PreloadClaim, Goto, cancels, invocation
<1>8. ASSUME NEW s \in Slot, PreloadSkip(w, s)
      PROVE  Seen(w)
  BY <1>8 DEF PreloadSkip, tables, cancels, invocation
<1> QED
  BY <1>1, <1>2, <1>3, <1>4, <1>5, <1>6, <1>7, <1>8 DEF Warm

\* What a caller sees: requests from the session and time passing.
LEMMA EnvironmentSeen ==
    ASSUME TypeOK, AttemptInv, Environment
    PROVE  \/ \A k \in Job : Untouched(k)
           \/ \E j \in Job : Seen(j)
<1> USE DEF TypeOK, Untouched, Seen, Steps, Task
<1>1. ASSUME NEW j \in Job, Submit(j)
      PROVE  Seen(j)
  <2>1. /\ pc[j] = "idle"
        /\ \E l \in {"pick", "orphans"} : pc' = [pc EXCEPT ![j] = l]
    BY <1>1 DEF Submit, Goto
  <2>2. Accepts(j)
    BY <1>1, <2>1 DEF Submit, invocation, AttemptInv, VerdictAtEnd, Open,
       Accepts, stages, places, heard, results, Stage, Settled, Retryable
  <2> QED
    BY <1>1, <2>1, <2>2 DEF Submit, invocation
<1>2. ASSUME NEW j \in Job, Cancel(j)
      PROVE  \A k \in Job : Untouched(k)
  BY <1>2 DEF Cancel, invocation
<1>3. ASSUME NEW j \in Job, Token(j)
      PROVE  Seen(j)
  <2>1. /\ pc[j] \in {"run", "tpRun"}
        /\ UNCHANGED <<pc, place, skip, attempt, verdict>>
        /\ streamed' = [streamed EXCEPT ![j] = @ \cup {attempt[j]}]
    BY <1>3 DEF Token
  <2>2. verdict[j] = "none"
    BY <2>1 DEF AttemptInv, VerdictAtEnd, Open
  <2>3. /\ Stage(j) = "running" /\ Stage(j)' = "running"
        /\ ~Settled(j) /\ ~Settled(j)'
    BY <2>1, <2>2 DEF Stage, Settled, Retryable
  <2>4. streamed'[j] # {}
    BY <2>1
  <2>5. Keeps(j) \/ Speaks(j)
    BY <2>1, <2>3, <2>4 DEF Keeps, Speaks, stages, places, heard, results
  <2> QED
    BY <2>1, <2>5
<1>4. ASSUME NEW s \in Slot, Age(s)
      PROVE  \A k \in Job : Untouched(k)
  BY <1>4 DEF Age, invocation
<1>5. ASSUME NEW w \in Warmer, StartEvictAll(w)
      PROVE  \A k \in Job : Untouched(k)
  BY <1>5, SlotPoolAssumption DEF StartEvictAll, Goto, invocation
<1>6. ASSUME NEW w \in Warmer, StartPreload(w)
      PROVE  \A k \in Job : Untouched(k)
  BY <1>6, SlotPoolAssumption DEF StartPreload, Goto, invocation
<1> QED
  BY <1>1, <1>2, <1>3, <1>4, <1>5, <1>6 DEF Environment

\* A step of any task is one for one job at most, and a step of the contract.
LEMMA NextSeen ==
    ASSUME TypeOK, TypeOK', AttemptInv, Next
    PROVE  [Contract!ContractNext]_(Contract!contractVars)
<1>1. ASSUME NEW t \in Task, Seen(t)
      PROVE  \/ \A k \in Job : Untouched(k)
             \/ t \in Job /\ Steps(t) /\ \A k \in Job \ {t} : Untouched(k)
  BY <1>1 DEF Seen
<1>2. ASSUME NEW t \in Task, Seen(t)
      PROVE  [Contract!ContractNext]_(Contract!contractVars)
  BY <1>1, <1>2, NoJob, Mapped
<1>3. ASSUME NEW j \in Job, JobStepOf(j)
      PROVE  Seen(j)
  BY <1>3, ReconcileSeen, SpawnSeen, ReturnSeen, InvokeSeen DEF JobStepOf, Task
<1>4. ASSUME NEW m \in Maintainer, MaintainerStep(m)
      PROVE  Seen(m)
  <2>1. CASE StartReconcile(m)
    BY <2>1, SlotPoolAssumption DEF StartReconcile, Goto, invocation, Seen,
       TypeOK, Untouched, Task
  <2> QED
    BY <1>4, <2>1, ReconcileSeen, SpawnSeen DEF MaintainerStep, Task
<1>5. ASSUME NEW w \in Warmer, WarmerStep(w)
      PROVE  Seen(w)
  BY <1>5, ReturnSeen, WarmSeen DEF WarmerStep, Task
<1>6. CASE Environment
  BY <1>2, <1>6, EnvironmentSeen, NoJob DEF Task
<1> QED
  BY <1>2, <1>3, <1>4, <1>5, <1>6 DEF Next, Task

\* An invoke has not begun initially.
LEMMA InitSeen == Init => Contract!ContractInit
BY SlotPoolAssumption DEF Init, Contract!ContractInit, stages, places, heard,
   results, Stage, Settled, Retryable, Task

\* Supervisor::invoke and invoke_image keep their promise whatever happens to
\* the slots: an invoke ends once, with "ok" only after a worker ran it, a pin
\* is never left, and a crash is retried before the first token only, on slots
\* that have not been tried.
THEOREM ContractKept == Spec => KeepsContract
<1>1. TypeOK /\ AtSlot /\ AttemptInv /\ [Next]_vars => AttemptInv'
  BY NextAttempt
<1>2. TypeOK /\ TypeOK' /\ AttemptInv /\ [Next]_vars
        => [Contract!ContractNext]_(Contract!contractVars)
  <2>1. ASSUME TypeOK, TypeOK', UNCHANGED vars
        PROVE  UNCHANGED Contract!contractVars
    BY <2>1, NoJob DEF vars, Untouched
  <2> QED
    BY <2>1, NextSeen
<1> QED
  BY <1>1, <1>2, InitAttempt, InitSeen, TypeCorrect, PTL
     DEF Spec, KeepsContract, Contract!ContractSpec
=============================================================================
