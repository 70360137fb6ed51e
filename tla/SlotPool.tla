------------------------------ MODULE SlotPool ------------------------------
(***************************************************************************)
(* The compute supervisor of scalattice-agent (supervisor/host.rs): a map  *)
(* of slot workers, the table of checked-out slots and the table of        *)
(* cancel signals, shared by every task that invokes a model, draws an     *)
(* image, warms or evicts weights, or reconciles the slots.                *)
(*                                                                         *)
(* An action is the code between two `.await` points.  A block that holds  *)
(* a mutex is one action, even when it takes a second mutex inside (the    *)
(* order in which the mutexes are taken is the subject of LockOrder).      *)
(* A worker process is the `alive` field of the one SlotWorker value that  *)
(* owns it: dropping that value kills the process (kill_on_drop).          *)
(***************************************************************************)
EXTENDS Naturals, FiniteSets

CONSTANTS
    Slot,       \* slots of the compute plan
    Accel,      \* the slots of an accelerator kind (not "cpu")
    Group,      \* tensor-parallel groups: sets of two or more slots
    Refused,    \* slots Supervisor::start refused (NVIDIA driver too old)
    Job,        \* invoke jobs; each is submitted at most once
    Image,      \* the jobs that draw images
    Pin,        \* [Job -> Slot \cup {None}]: preferred slot named by the cloud
    Maintainer, \* the maintenance tasks that reconcile slots
    Warmer,     \* the tasks that run evict_all and preload_slots
    None,       \* no worker, no task, no slot
    MaxFaults   \* bound on injected worker faults

Task == Job \cup Maintainer \cup Warmer

ASSUME SlotPoolAssumption ==
    /\ IsFiniteSet(Slot) /\ Accel \subseteq Slot /\ Refused \subseteq Slot
    /\ Group \subseteq SUBSET Slot
    /\ Image \subseteq Job
    /\ Pin \in [Job -> Slot \cup {None}]
    /\ Job \cap Maintainer = {} /\ Job \cap Warmer = {}
    /\ Maintainer \cap Warmer = {}
    /\ None \notin Task \cup Slot
    /\ MaxFaults \in Nat

VARIABLES
    workers,     \* Supervisor.workers: [Slot -> Worker \cup {None}]
    checkouts,   \* Supervisor.checkouts: the task that marked the slot, or None
    aged,        \* slots whose checkout is STUCK_CHECKOUT (20 min) old
    registered,  \* keys of Supervisor.job_cancels
    woken,       \* jobs whose pending `cancel.notified()` has been notified
    pc,          \* where each task stands
    at,          \* the slot a task is working on
    why,         \* what a task is spawning a worker for
    held,        \* the SlotWorker value on a task's stack frame
    todo,        \* the slots a task has still to visit; an idle snapshot
    place,       \* placement.slot_ids of a job
    skip,        \* slots whose worker crashed under this job
    attempt,     \* retry loop counter of invoke()
    streamed,    \* the attempts of a job that delivered a token (sent_token)
    verdict,     \* how the current attempt of a job ended
    signaled,    \* jobs the cloud canceled while they were registered
    faults       \* worker faults injected so far

vars == <<workers, checkouts, aged, registered, woken, pc, at, why, held, todo,
          place, skip, attempt, streamed, verdict, signaled, faults>>

tables == <<workers, checkouts, aged>>
cancels == <<registered, woken, signaled>>
frame == <<at, why, held, todo>>
invocation == <<place, skip, attempt, streamed, verdict>>

-----------------------------------------------------------------------------
(* Types *)

Worker == [busy : BOOLEAN, healthy : BOOLEAN, alive : BOOLEAN]

Purpose == {"missing", "stale", "claimMiss", "pin", "restore", "preload"}

Verdict == {"none", "ok", "canceled", "crash", "error"}

ReconcileStep == {"orphans", "stale", "reclaim", "missing", "respawn"}
SpawnStep == {"reap", "create", "ping"}
JobStep == {"prep", "pick", "claim", "pin", "pinKill", "pinClaim", "take",
            "mark", "run", "clear", "putBack", "tp", "tpMark", "tpSpawn",
            "tpRun", "tpRestore", "tpUndo", "tpClear", "verdict"}
WarmStep == {"evict", "evictRpc", "preload", "warmTake", "warmMark", "warmRpc"}
Label == {"idle", "done"} \cup ReconcileStep \cup SpawnStep \cup JobStep \cup WarmStep

TypeOK ==
    /\ workers \in [Slot -> Worker \cup {None}]
    /\ checkouts \in [Slot -> Task \cup {None}]
    /\ aged \in SUBSET Slot
    /\ registered \in SUBSET Job
    /\ woken \in SUBSET Job
    /\ signaled \in SUBSET Job
    /\ pc \in [Task -> Label]
    /\ at \in [Task -> Slot \cup {None}]
    /\ why \in [Task -> Purpose \cup {None}]
    /\ held \in [Task -> Worker \cup {None}]
    /\ todo \in [Task -> SUBSET Slot]
    /\ place \in [Job -> SUBSET Slot]
    /\ skip \in [Job -> SUBSET Slot]
    /\ attempt \in [Job -> Nat]
    /\ streamed \in [Job -> SUBSET Nat]
    /\ verdict \in [Job -> Verdict]
    /\ faults \in Nat

-----------------------------------------------------------------------------
(* Helpers *)

Fresh == [busy |-> FALSE, healthy |-> TRUE, alive |-> TRUE]
Lost == [busy |-> FALSE, healthy |-> FALSE, alive |-> FALSE]

Killed(w) == IF w = None THEN None ELSE [w EXCEPT !.alive = FALSE]

Idle(s) == workers[s] # None /\ workers[s].healthy /\ ~workers[s].busy

\* invoke() awaits its cancel signal here, and nowhere else.
Awaiting(j) == pc[j] \in {"prep", "run", "tpRun"}

\* The retry loop runs once per accelerator slot, at least 1 and at most 4
\* times; a pinned job has one attempt.
Attempts(j) ==
    IF Pin[j] # None \/ Cardinality(Accel) <= 1 THEN 1
    ELSE IF Cardinality(Accel) <= 4 THEN Cardinality(Accel) ELSE 4

\* The placements for a job whose main slot is s: s alone, or (text only)
\* the tensor-parallel group of s.
Placements(j, s) ==
    {{s}} \cup {g \in Group : s \in g /\ j \notin Image}

Goto(t, label) == pc' = [pc EXCEPT ![t] = label]

\* A job leaves its attempt with verdict v, holding no worker.
GiveUp(j, v) ==
    /\ verdict' = [verdict EXCEPT ![j] = v]
    /\ at' = [at EXCEPT ![j] = None]
    /\ todo' = [todo EXCEPT ![j] = {}]
    /\ Goto(j, "verdict")

\* spawn_plan_worker(s) begins; the caller resumes according to `purpose`.
BeginSpawn(t, s, purpose) ==
    /\ at' = [at EXCEPT ![t] = s]
    /\ why' = [why EXCEPT ![t] = purpose]
    /\ Goto(t, "reap")

Init ==
    /\ workers = [s \in Slot |-> IF s \in Refused THEN None ELSE Fresh]
    /\ checkouts = [s \in Slot |-> None]
    /\ aged = {} /\ registered = {} /\ woken = {} /\ signaled = {}
    /\ pc = [t \in Task |-> "idle"]
    /\ at = [t \in Task |-> None]
    /\ why = [t \in Task |-> None]
    /\ held = [t \in Task |-> None]
    /\ todo = [t \in Task |-> {}]
    /\ place = [j \in Job |-> {}]
    /\ skip = [j \in Job |-> {}]
    /\ attempt = [j \in Job |-> 0]
    /\ streamed = [j \in Job |-> {}]
    /\ verdict = [j \in Job |-> "none"]
    /\ faults = 0

-----------------------------------------------------------------------------
(* Requests from the session *)

\* invoke() and invoke_image() register the cancel signal first.  invoke()
\* then reconciles the slots; invoke_image() goes straight to the claim.
Submit(j) ==
    /\ pc[j] = "idle"
    /\ registered' = registered \cup {j}
    /\ Goto(j, IF j \in Image THEN "pick" ELSE "orphans")
    /\ UNCHANGED <<tables, woken, signaled, frame, invocation, faults>>

\* cancel_invoke: notify_waiters leaves no permit behind, so a job that is
\* not awaiting the signal at this instant never sees it.
Notify(j) ==
    woken' = IF j \in registered /\ Awaiting(j) THEN woken \cup {j} ELSE woken

Cancel(j) ==
    /\ j \in registered \ signaled
    /\ Notify(j)
    /\ signaled' = signaled \cup {j}
    /\ UNCHANGED <<tables, registered, pc, frame, invocation, faults>>

\* A checkout reaches STUCK_CHECKOUT only under an image job: its wall clock
\* is 45 minutes, while the text deadline (12 min) and the warm RPC (10 min)
\* end before 20 minutes have passed.
Age(s) ==
    /\ s \notin aged
    /\ checkouts[s] \in Image /\ pc[checkouts[s]] = "run"
    /\ aged' = aged \cup {s}
    /\ UNCHANGED <<workers, checkouts, cancels, pc, frame, invocation, faults>>

-----------------------------------------------------------------------------
(* reconcile_slots, run by the heartbeat and at the start of every invoke() *)

StartReconcile(m) ==
    /\ pc[m] = "idle"
    /\ Goto(m, "orphans")
    /\ UNCHANGED <<tables, cancels, frame, invocation, faults>>

\* A worker that is in the map, busy, and not checked out is an orphan flag.
ClearOrphanBusy(t) ==
    /\ pc[t] = "orphans"
    /\ workers' = [s \in Slot |->
                     IF workers[s] # None /\ checkouts[s] = None
                     THEN [workers[s] EXCEPT !.busy = FALSE]
                     ELSE workers[s]]
    /\ Goto(t, IF aged = {} THEN "missing" ELSE "stale")
    /\ UNCHANGED <<checkouts, aged, cancels, frame, invocation, faults>>

\* Cancel the job of a stale checkout and forget its cancel signal.
CancelStale(t, s) ==
    /\ pc[t] = "stale" /\ s \in aged /\ checkouts[s] # None
    /\ Notify(checkouts[s])
    /\ registered' = registered \ {checkouts[s]}
    /\ at' = [at EXCEPT ![t] = s]
    /\ Goto(t, "reclaim")
    /\ UNCHANGED <<tables, signaled, why, held, todo, invocation, faults>>

\* Drop the checkout; keep a healthy idle worker, else replace the worker.
Reclaim(t) ==
    LET s == at[t] IN
    /\ pc[t] = "reclaim"
    /\ checkouts' = [checkouts EXCEPT ![s] = None]
    /\ aged' = aged \ {s}
    /\ \/ /\ Idle(s)
          /\ at' = [at EXCEPT ![t] = None]
          /\ Goto(t, "stale")
          /\ UNCHANGED <<workers, why>>
       \/ /\ ~Idle(s)
          /\ workers' = [workers EXCEPT ![s] = None]
          /\ BeginSpawn(t, s, "stale")
    /\ UNCHANGED <<cancels, held, todo, invocation, faults>>

StaleDone(t) ==
    /\ pc[t] = "stale" /\ \A s \in aged : checkouts[s] = None
    /\ Goto(t, "missing")
    /\ UNCHANGED <<tables, cancels, frame, invocation, faults>>

\* Where reconcile_slots returns to, and where its loop over the missing slots
\* goes next.
AfterReconcile(t) == IF t \in Job THEN "prep" ELSE "idle"

NextMissing(t) == IF todo[t] = {} THEN AfterReconcile(t) ELSE "respawn"

\* (mutant) only the slots that have an unhealthy worker count as missing.
FindMissing_OnlyDead(t) ==
    /\ pc[t] = "missing"
    /\ todo' = [todo EXCEPT ![t] =
                  {s \in Slot : /\ workers[s] # None /\ ~workers[s].healthy
                                /\ checkouts[s] = None}]
    /\ Goto(t, IF todo'[t] = {} THEN AfterReconcile(t) ELSE "respawn")
    /\ UNCHANGED <<tables, cancels, at, why, held, invocation, faults>>

\* Plan slots found in neither table: refused slots are not left out.
FindMissing(t) ==
    /\ pc[t] = "missing"
    /\ todo' = [todo EXCEPT ![t] =
                  {s \in Slot : workers[s] = None /\ checkouts[s] = None}]
    /\ Goto(t, IF todo'[t] = {} THEN AfterReconcile(t) ELSE "respawn")
    /\ UNCHANGED <<tables, cancels, at, why, held, invocation, faults>>

RespawnMissing(t, s) ==
    /\ pc[t] = "respawn" /\ s \in todo[t]
    /\ todo' = [todo EXCEPT ![t] = @ \ {s}]
    /\ BeginSpawn(t, s, "missing")
    /\ UNCHANGED <<tables, cancels, held, invocation, faults>>

-----------------------------------------------------------------------------
(* spawn_worker: reap the slot's processes, create one, ping it *)

\* reap_slot_image_processes(s): SIGKILL for every worker process of the slot,
\* whoever owns it.
ReapSlot(s) ==
    /\ workers' = [workers EXCEPT ![s] = Killed(@)]
    /\ held' = [t \in Task |-> IF at[t] = s THEN Killed(held[t]) ELSE held[t]]

Reap(t) ==
    /\ pc[t] = "reap"
    /\ ReapSlot(at[t])
    /\ Goto(t, "create")
    /\ UNCHANGED <<checkouts, aged, cancels, at, why, todo, invocation, faults>>

Create(t) ==
    /\ pc[t] = "create"
    /\ held' = [held EXCEPT ![t] = Fresh]
    /\ Goto(t, "ping")
    /\ UNCHANGED <<tables, cancels, at, why, todo, invocation, faults>>

\* What each caller of spawn_plan_worker does with the new worker.  A worker
\* of a refused slot answers the ping as incompatible, i.e. unhealthy.
PingOk(t) ==
    LET s == at[t]
        w == [held[t] EXCEPT !.healthy = s \notin Refused]
        leave == /\ held' = [held EXCEPT ![t] = None]
                 /\ why' = [why EXCEPT ![t] = None]
    IN
    /\ pc[t] = "ping" /\ held[t] # None /\ held[t].alive
    /\ \/ /\ why[t] \in {"missing", "stale"}
          /\ workers' = [workers EXCEPT ![s] = w]
          /\ leave
          /\ at' = [at EXCEPT ![t] = None]
          /\ Goto(t, IF why[t] = "stale" THEN "stale" ELSE NextMissing(t))
          /\ UNCHANGED <<todo, verdict>>
       \/ /\ why[t] = "claimMiss"
          /\ workers' = [workers EXCEPT ![s] = IF @ = None THEN w ELSE @]
          /\ leave
          /\ GiveUp(t, "error")
       \/ /\ why[t] = "pin"
          /\ workers' = [workers EXCEPT ![s] = [w EXCEPT !.healthy = TRUE]]
          /\ leave
          /\ at' = [at EXCEPT ![t] = None]
          /\ Goto(t, "pin")
          /\ UNCHANGED <<todo, verdict>>
       \/ /\ why[t] = "restore"
          /\ held' = [held EXCEPT ![t] = w]
          /\ why' = [why EXCEPT ![t] = None]
          /\ Goto(t, "clear")
          /\ UNCHANGED <<workers, at, todo, verdict>>
    /\ UNCHANGED <<checkouts, aged, cancels, place, skip, attempt, streamed,
                   faults>>

\* The handshake fails when the process is gone, or by a fault of its own; the
\* child is killed and the slot reaped once more.
PingFail(t) ==
    LET s == at[t]
        others == [u \in Task |-> IF at[u] = s THEN Killed(held[u]) ELSE held[u]]
    IN
    /\ pc[t] = "ping" /\ held[t] # None
    /\ IF held[t].alive
       THEN faults < MaxFaults /\ faults' = faults + 1
       ELSE faults' = faults
    /\ workers' = [workers EXCEPT ![s] = Killed(@)]
    /\ why' = [why EXCEPT ![t] = None]
    /\ \/ /\ why[t] \in {"missing", "stale"}
          /\ held' = [others EXCEPT ![t] = None]
          /\ at' = [at EXCEPT ![t] = None]
          /\ Goto(t, IF why[t] = "stale" THEN "stale" ELSE NextMissing(t))
          /\ UNCHANGED <<todo, verdict>>
       \/ /\ why[t] \in {"claimMiss", "pin"}
          /\ held' = [others EXCEPT ![t] = None]
          /\ GiveUp(t, "error")
       \/ /\ why[t] = "restore"
          /\ held' = [others EXCEPT ![t] = Lost]
          /\ Goto(t, "clear")
          /\ UNCHANGED <<at, todo, verdict>>
    /\ UNCHANGED <<checkouts, aged, cancels, place, skip, attempt, streamed>>

-----------------------------------------------------------------------------
(* invoke(): wait for placement, then claim *)

\* The two selects before placement: residency check (8 s) and mmap gate
\* (45 s).  The cancel branch is biased, so a notified job takes it.
Placing(j) ==
    /\ pc[j] = "prep" /\ j \notin woken
    /\ Goto(j, "pick")
    /\ UNCHANGED <<tables, cancels, frame, invocation, faults>>

PlacingAborted(j) ==
    /\ pc[j] = "prep"
    /\ IF j \in woken
       THEN faults' = faults
       ELSE faults < MaxFaults /\ faults' = faults + 1
    /\ woken' = woken \ {j}
    /\ GiveUp(j, IF j \in woken THEN "canceled" ELSE "error")
    /\ UNCHANGED <<tables, registered, signaled, why, held, place, skip, attempt,
                   streamed>>

\* Unpinned: the idle slots are listed under the lock, which is then dropped.
ListIdle(j) ==
    /\ pc[j] = "pick" /\ Pin[j] = None
    /\ todo' = [todo EXCEPT ![j] = {s \in Slot \ skip[j] : Idle(s)}]
    /\ Goto(j, "claim")
    /\ UNCHANGED <<tables, cancels, at, why, held, invocation, faults>>

\* No placement fits: the last crash, if any, is the error reported.
NoPlacement(j) ==
    /\ pc[j] = "claim"
    /\ GiveUp(j, "error")
    /\ UNCHANGED <<tables, cancels, why, held, place, skip, attempt, streamed,
                   faults>>

\* The lock is taken again; every slot of the placement must still be there,
\* idle and healthy, or the flags already set are rolled back.
Claim(j) ==
    \E s \in todo[j] : \E p \in Placements(j, s) :
        /\ pc[j] = "claim" /\ p \subseteq todo[j]
        /\ \/ /\ \A r \in p : Idle(r)
              /\ workers' = [r \in Slot |-> IF r \in p
                               THEN [workers[r] EXCEPT !.busy = TRUE]
                               ELSE workers[r]]
              /\ place' = [place EXCEPT ![j] = p]
              /\ at' = [at EXCEPT ![j] = IF p = {s} THEN s ELSE None]
              /\ todo' = [todo EXCEPT ![j] = {}]
              /\ Goto(j, IF p = {s} THEN "take" ELSE "tp")
              /\ UNCHANGED <<registered, why, verdict>>
           \/ /\ \E r \in p : workers[r] # None /\ ~Idle(r)
              /\ registered' = registered \ {j}
              /\ GiveUp(j, "error")
              /\ UNCHANGED <<workers, place, why>>
           \/ \E r \in p :
              /\ workers[r] = None
              /\ registered' = registered \ {j}
              /\ IF checkouts[r] = None
                 THEN BeginSpawn(j, r, "claimMiss") /\ UNCHANGED <<todo, verdict>>
                 ELSE GiveUp(j, "error") /\ UNCHANGED why
              /\ UNCHANGED <<workers, place>>
    /\ UNCHANGED <<checkouts, aged, woken, signaled, held, skip, attempt,
                   streamed, faults>>

\* Pinned: placement_for_required_slot, then claim_pin_slot_error per slot.
PickPinned(j) ==
    /\ pc[j] = "pick" /\ Pin[j] # None
    /\ \E p \in Placements(j, Pin[j]) :
          /\ place' = [place EXCEPT ![j] = p]
          /\ todo' = [todo EXCEPT ![j] = p]
    /\ Goto(j, "pin")
    /\ UNCHANGED <<tables, cancels, at, why, held, skip, attempt, streamed,
                   verdict, faults>>

\* Capacity, a block or external occupancy refuses the pin, or it is busy.
PinRefused(j) ==
    /\ pc[j] = "pin" /\ todo[j] # {}
    /\ GiveUp(j, "error")
    /\ UNCHANGED <<tables, cancels, why, held, place, skip, attempt, streamed,
                   faults>>

PinCheck(j, s) ==
    /\ pc[j] = "pin" /\ s \in todo[j]
    /\ \/ /\ Idle(s)
          /\ todo' = [todo EXCEPT ![j] = @ \ {s}]
          /\ UNCHANGED <<pc, at, why>>
       \/ /\ workers[s] # None /\ ~workers[s].busy /\ ~workers[s].healthy
          /\ at' = [at EXCEPT ![j] = s]
          /\ todo' = [todo EXCEPT ![j] = @ \ {s}]
          /\ Goto(j, "pinKill")
          /\ UNCHANGED why
       \/ /\ workers[s] = None /\ checkouts[s] = None
          /\ BeginSpawn(j, s, "claimMiss")
          /\ UNCHANGED todo
    /\ UNCHANGED <<tables, cancels, held, invocation, faults>>

\* The unhealthy worker is removed under a second lock, whatever it is by now.
PinKill(j) ==
    /\ pc[j] = "pinKill"
    /\ workers' = [workers EXCEPT ![at[j]] = None]
    /\ BeginSpawn(j, at[j], "pin")
    /\ UNCHANGED <<checkouts, aged, cancels, held, todo, invocation, faults>>

\* All pins checked: set the flags under one more lock, without a second look.
PinClaim(j) ==
    /\ pc[j] = "pin" /\ todo[j] = {}
    /\ workers' = [s \in Slot |-> IF s \in place[j] /\ workers[s] # None
                                  THEN [workers[s] EXCEPT !.busy = TRUE]
                                  ELSE workers[s]]
    /\ at' = [at EXCEPT ![j] = IF place[j] = {Pin[j]} THEN Pin[j] ELSE None]
    /\ Goto(j, IF place[j] = {Pin[j]} THEN "take" ELSE "tp")
    /\ UNCHANGED <<checkouts, aged, cancels, why, held, todo, invocation, faults>>

-----------------------------------------------------------------------------
(* invoke_single and invoke_image: take the worker out, use it, return it *)

\* Another task may have taken the worker between the claim and this lock.
Take(j) ==
    LET s == at[j] IN
    /\ pc[j] = "take"
    /\ \/ /\ workers[s] # None
          /\ held' = [held EXCEPT ![j] = workers[s]]
          /\ workers' = [workers EXCEPT ![s] = None]
          /\ Goto(j, "mark")
          /\ UNCHANGED <<at, why, todo, verdict>>
       \/ /\ workers[s] = None
          /\ IF checkouts[s] = None
             THEN BeginSpawn(j, s, "claimMiss") /\ UNCHANGED <<todo, verdict>>
             ELSE GiveUp(j, "error") /\ UNCHANGED why
          /\ UNCHANGED <<workers, held>>
    /\ UNCHANGED <<checkouts, aged, cancels, place, skip, attempt, streamed,
                   faults>>

\* mark_checkout, after the RAM check of invoke_single.  An image job then
\* kills the llama worker to free the GPU.
Mark(j) ==
    LET s == at[j] IN
    /\ pc[j] = "mark"
    /\ checkouts' = [checkouts EXCEPT ![s] = j]
    /\ aged' = aged \ {s}
    /\ held' = [held EXCEPT ![j] = IF j \in Image THEN Killed(@) ELSE @]
    /\ Goto(j, "run")
    /\ UNCHANGED <<workers, cancels, at, why, todo, invocation, faults>>

\* Not enough free system RAM, found before the checkout (weights) or after it
\* (context): return_worker either way.
RamRefused(j) ==
    /\ j \notin Image
    /\ \/ pc[j] = "mark"
       \/ pc[j] = "run" /\ j \notin woken /\ attempt[j] \notin streamed[j]
    /\ verdict' = [verdict EXCEPT ![j] = "error"]
    /\ Goto(j, "clear")
    /\ UNCHANGED <<tables, cancels, frame, place, skip, attempt, streamed, faults>>

\* A delta from the live worker reaches the client and sets sent_token.
Token(j) ==
    /\ \/ pc[j] = "run" /\ j \notin Image /\ held[j].alive
       \/ pc[j] = "tpRun"
    /\ j \notin woken
    /\ attempt[j] \notin streamed[j]
    /\ streamed' = [streamed EXCEPT ![j] = @ \cup {attempt[j]}]
    /\ UNCHANGED <<tables, cancels, pc, frame, place, skip, attempt, verdict,
                   faults>>

\* An image job respawns its llama worker, a text job returns a live one.
RunOk(j) ==
    /\ pc[j] = "run" /\ j \notin woken
    /\ verdict' = [verdict EXCEPT ![j] = "ok"]
    /\ \/ /\ j \in Image
          /\ BeginSpawn(j, at[j], "restore")
       \/ /\ j \notin Image /\ held[j] # None /\ held[j].alive
          /\ Goto(j, "clear")
          /\ UNCHANGED <<at, why>>
    /\ UNCHANGED <<tables, cancels, held, todo, place, skip, attempt, streamed,
                   faults>>

\* (mutant) the end of a worker's output is not noticed.
RunFail_NoEof(j) ==
    /\ pc[j] = "run"
    /\ \/ /\ j \in woken
          /\ verdict' = [verdict EXCEPT ![j] = "canceled"]
          /\ UNCHANGED faults
       \/ /\ j \notin woken /\ faults < MaxFaults /\ faults' = faults + 1
          /\ \E v \in {"crash", "error"} :
                verdict' = [verdict EXCEPT ![j] = v]
    /\ woken' = woken \ {j}
    /\ IF j \in Image THEN UNCHANGED <<workers, held>> ELSE ReapSlot(at[j])
    /\ BeginSpawn(j, at[j], "restore")
    /\ UNCHANGED <<checkouts, aged, registered, signaled, todo, place, skip,
                   attempt, streamed>>

\* The cancel signal, a worker that is gone (before its answer or just after
\* it), a crash, or an error (a watchdog kill, a worker error): the worker is
\* killed, its slot reaped, and a new one spawned in its place.
RunFail(j) ==
    /\ pc[j] = "run"
    /\ \/ /\ j \in woken
          /\ verdict' = [verdict EXCEPT ![j] = "canceled"]
          /\ UNCHANGED faults
       \/ /\ j \notin woken /\ j \notin Image
          /\ held[j] # None /\ ~held[j].alive
          /\ \E v \in {"crash", "ok"} : verdict' = [verdict EXCEPT ![j] = v]
          /\ UNCHANGED faults
       \/ /\ j \notin woken
          /\ faults < MaxFaults /\ faults' = faults + 1
          /\ \E v \in {"crash", "error"} :
                verdict' = [verdict EXCEPT ![j] = v]
    /\ woken' = woken \ {j}
    /\ IF j \in Image THEN UNCHANGED <<workers, held>> ELSE ReapSlot(at[j])
    /\ BeginSpawn(j, at[j], "restore")
    /\ UNCHANGED <<checkouts, aged, registered, signaled, todo, place, skip,
                   attempt, streamed>>

\* (mutant) the checkout survives the return of an unhealthy worker.
ClearCheckout_HealthyOnly(t) ==
    /\ pc[t] = "clear"
    /\ checkouts' = [checkouts EXCEPT ![at[t]] =
                       IF held[t].healthy THEN None ELSE @]
    /\ aged' = aged \ {at[t]}
    /\ Goto(t, "putBack")
    /\ UNCHANGED <<workers, cancels, frame, invocation, faults>>

\* return_worker: clear the slot's checkout, whoever marked it ...
ClearCheckout(t) ==
    /\ pc[t] = "clear"
    /\ checkouts' = [checkouts EXCEPT ![at[t]] = None]
    /\ aged' = aged \ {at[t]}
    /\ Goto(t, "putBack")
    /\ UNCHANGED <<workers, cancels, frame, invocation, faults>>

\* ... then put the worker into the map, or kill it if the slot has a healthy
\* idle one.
Returned(t) ==
    LET s == at[t] IN
    workers' = [workers EXCEPT ![s] =
                  IF Idle(s) THEN @ ELSE [held[t] EXCEPT !.busy = FALSE]]

PutBack(t) ==
    /\ pc[t] = "putBack" /\ held[t] # None
    /\ Returned(t)
    /\ held' = [held EXCEPT ![t] = None]
    /\ at' = [at EXCEPT ![t] = None]
    /\ Goto(t, IF t \in Warmer
               THEN IF why[t] = "preload" THEN "preload" ELSE "evict"
               ELSE "verdict")
    /\ UNCHANGED <<checkouts, aged, cancels, why, todo, invocation, faults>>

\* (mutant) a crash is retried after the client has seen a token.
Retryable_Streamed(j) ==
    /\ verdict[j] = "crash" /\ j \notin Image /\ Pin[j] = None
    /\ attempt[j] + 1 < Attempts(j)

\* A crash under an unpinned text job that has sent no token is retried on
\* another slot; everything else ends the invoke and its cancel signal.
Retryable(j) ==
    /\ verdict[j] = "crash" /\ j \notin Image /\ Pin[j] = None
    /\ streamed[j] = {}
    /\ attempt[j] + 1 < Attempts(j)

\* (mutant) the retry budget is counted the wrong way.
Retry_CountsDown(j) ==
    /\ pc[j] = "verdict" /\ Retryable(j)
    /\ skip' = [skip EXCEPT ![j] = @ \cup place[j]]
    /\ attempt' = [attempt EXCEPT ![j] = @ - 1]
    /\ place' = [place EXCEPT ![j] = {}]
    /\ verdict' = [verdict EXCEPT ![j] = "none"]
    /\ Goto(j, "pick")
    /\ UNCHANGED <<tables, cancels, frame, streamed, faults>>

Retry(j) ==
    /\ pc[j] = "verdict" /\ Retryable(j)
    /\ skip' = [skip EXCEPT ![j] = @ \cup place[j]]
    /\ attempt' = [attempt EXCEPT ![j] = @ + 1]
    /\ place' = [place EXCEPT ![j] = {}]
    /\ verdict' = [verdict EXCEPT ![j] = "none"]
    /\ Goto(j, "pick")
    /\ UNCHANGED <<tables, cancels, frame, streamed, faults>>

\* (mutant) an error return forgets the cancel signal.
Finish_ErrorLeaks(j) ==
    /\ pc[j] = "verdict" /\ ~Retryable(j)
    /\ registered' = IF verdict[j] = "error" THEN registered ELSE registered \ {j}
    /\ Goto(j, "done")
    /\ UNCHANGED <<tables, woken, signaled, frame, invocation, faults>>

Finish(j) ==
    /\ pc[j] = "verdict" /\ ~Retryable(j)
    /\ registered' = registered \ {j}
    /\ Goto(j, "done")
    /\ UNCHANGED <<tables, woken, signaled, frame, invocation, faults>>

-----------------------------------------------------------------------------
(* invoke_tp: stop the siblings, run one worker over them, restore them *)

\* Under one lock the siblings are killed one after the other; a missing one
\* ends the invoke and leaves those before it killed and busy.
TpStop(j) ==
    /\ pc[j] = "tp"
    /\ \E stopped \in SUBSET place[j] :
        /\ \A s \in stopped : workers[s] # None
        /\ workers' = [s \in Slot |->
              IF s \in stopped
              THEN [Killed(workers[s]) EXCEPT !.healthy = FALSE]
              ELSE workers[s]]
        /\ \/ stopped = place[j] /\ Goto(j, "tpMark") /\ UNCHANGED <<at, todo, verdict>>
           \/ /\ \E s \in place[j] \ stopped : workers[s] = None
              /\ GiveUp(j, "error")
    /\ UNCHANGED <<checkouts, aged, cancels, why, held, place, skip, attempt,
                   streamed, faults>>

\* The checkouts of a group are marked, and later cleared, one await after the
\* other; each loop is one action here.
TpMark(j) ==
    /\ pc[j] = "tpMark"
    /\ checkouts' = [s \in Slot |-> IF s \in place[j] THEN j ELSE checkouts[s]]
    /\ aged' = aged \ place[j]
    /\ Goto(j, "tpSpawn")
    /\ UNCHANGED <<workers, cancels, frame, invocation, faults>>

\* The group worker runs under an image name of its own.
TpSpawn(j) ==
    /\ pc[j] = "tpSpawn"
    /\ \/ Goto(j, "tpRun") /\ UNCHANGED <<verdict, faults>>
       \/ /\ faults < MaxFaults /\ faults' = faults + 1
          /\ verdict' = [verdict EXCEPT ![j] = "error"]
          /\ Goto(j, "tpUndo")
    /\ UNCHANGED <<tables, cancels, frame, place, skip, attempt, streamed>>

TpRun(j) ==
    /\ pc[j] = "tpRun"
    /\ \/ /\ j \in woken
          /\ verdict' = [verdict EXCEPT ![j] = "canceled"]
          /\ UNCHANGED faults
       \/ /\ j \notin woken
          /\ verdict' = [verdict EXCEPT ![j] = "ok"]
          /\ UNCHANGED faults
       \/ /\ j \notin woken
          /\ faults < MaxFaults /\ faults' = faults + 1
          /\ \E v \in {"crash", "error"} : verdict' = [verdict EXCEPT ![j] = v]
    /\ woken' = woken \ {j}
    /\ Goto(j, "tpRestore")
    /\ UNCHANGED <<tables, registered, signaled, frame, place, skip, attempt,
                   streamed>>

\* Under the workers lock every sibling is spawned again (reap, create, ping).
\* A sibling that fails stays as it was, its busy flag cleared only when it
\* was the group worker that could not be spawned ("tpUndo").
TpRestore(j) ==
    /\ pc[j] \in {"tpRestore", "tpUndo"}
    /\ \E failed \in SUBSET place[j] :
        /\ faults' = faults + (IF failed = {} THEN 0 ELSE 1) /\ faults' <= MaxFaults
        /\ workers' = [s \in Slot |->
              IF s \notin place[j] THEN workers[s]
              ELSE IF s \notin failed THEN [Fresh EXCEPT !.healthy = s \notin Refused]
              ELSE IF workers[s] = None THEN None
              ELSE [Killed(workers[s]) EXCEPT
                      !.busy = workers[s].busy /\ pc[j] = "tpRestore"]]
    /\ held' = [t \in Task |-> IF at[t] \in place[j] THEN Killed(held[t])
                                                     ELSE held[t]]
    /\ Goto(j, "tpClear")
    /\ UNCHANGED <<checkouts, aged, cancels, at, why, todo, invocation>>

TpClear(j) ==
    /\ pc[j] = "tpClear"
    /\ checkouts' = [s \in Slot |-> IF s \in place[j] THEN None ELSE checkouts[s]]
    /\ aged' = aged \ place[j]
    /\ Goto(j, "verdict")
    /\ UNCHANGED <<workers, cancels, frame, invocation, faults>>

-----------------------------------------------------------------------------
(* evict_all and preload_slots *)

\* The session starts both only while no job is active.
NoActiveJob == \A j \in Job : pc[j] \in {"idle", "done"}

StartEvictAll(w) ==
    /\ pc[w] = "idle" /\ NoActiveJob
    /\ todo' = [todo EXCEPT ![w] = {s \in Slot : workers[s] # None}]
    /\ Goto(w, "evict")
    /\ UNCHANGED <<tables, cancels, at, why, held, invocation, faults>>

\* evict_all takes the worker without looking at its busy flag, and without a
\* checkout.
EvictTake(w, s) ==
    /\ pc[w] = "evict" /\ s \in todo[w]
    /\ todo' = [todo EXCEPT ![w] = @ \ {s}]
    /\ IF workers[s] = None
       THEN UNCHANGED <<workers, held, at, pc>>
       ELSE /\ held' = [held EXCEPT ![w] = workers[s]]
            /\ workers' = [workers EXCEPT ![s] = None]
            /\ at' = [at EXCEPT ![w] = s]
            /\ Goto(w, "evictRpc")
    /\ UNCHANGED <<checkouts, aged, cancels, why, invocation, faults>>

StartPreload(w) ==
    /\ pc[w] = "idle" /\ NoActiveJob
    /\ \A s \in Slot : checkouts[s] = None
    /\ todo' = [todo EXCEPT ![w] = Slot]
    /\ why' = [why EXCEPT ![w] = "preload"]
    /\ Goto(w, "preload")
    /\ UNCHANGED <<tables, cancels, at, held, invocation, faults>>

\* A slot outside the plan is evicted: taken if it is still idle and healthy.
PreloadEvict(w, s) ==
    /\ pc[w] = "preload" /\ s \in todo[w] /\ Idle(s)
    /\ todo' = [todo EXCEPT ![w] = @ \ {s}]
    /\ held' = [held EXCEPT ![w] = workers[s]]
    /\ workers' = [workers EXCEPT ![s] = None]
    /\ at' = [at EXCEPT ![w] = s]
    /\ Goto(w, "warmMark")
    /\ UNCHANGED <<checkouts, aged, cancels, why, invocation, faults>>

\* A slot of the plan is flagged busy under one lock and taken under the next.
PreloadClaim(w, s) ==
    /\ pc[w] = "preload" /\ s \in todo[w] /\ Idle(s)
    /\ todo' = [todo EXCEPT ![w] = @ \ {s}]
    /\ workers' = [workers EXCEPT ![s].busy = TRUE]
    /\ at' = [at EXCEPT ![w] = s]
    /\ Goto(w, "warmTake")
    /\ UNCHANGED <<checkouts, aged, cancels, why, held, invocation, faults>>

PreloadSkip(w, s) ==
    /\ pc[w] = "preload" /\ s \in todo[w]
    /\ todo' = [todo EXCEPT ![w] = @ \ {s}]
    /\ UNCHANGED <<tables, cancels, pc, at, why, held, invocation, faults>>

PreloadTake(w) ==
    LET s == at[w] IN
    /\ pc[w] = "warmTake"
    /\ IF workers[s] = None
       THEN /\ at' = [at EXCEPT ![w] = None]
            /\ Goto(w, "preload")
            /\ UNCHANGED <<workers, held>>
       ELSE /\ held' = [held EXCEPT ![w] = workers[s]]
            /\ workers' = [workers EXCEPT ![s] = None]
            /\ Goto(w, "warmMark")
            /\ UNCHANGED at
    /\ UNCHANGED <<checkouts, aged, cancels, why, todo, invocation, faults>>

WarmMark(w) ==
    /\ pc[w] = "warmMark"
    /\ checkouts' = [checkouts EXCEPT ![at[w]] = w]
    /\ aged' = aged \ {at[w]}
    /\ Goto(w, "warmRpc")
    /\ UNCHANGED <<workers, cancels, frame, invocation, faults>>

\* Evict or Warm RPC: answered by a live worker, else it times out or finds the
\* pipe closed, and the worker goes back killed and unhealthy.
WarmRpc(w) ==
    /\ pc[w] \in {"evictRpc", "warmRpc"} /\ held[w] # None
    /\ \/ held[w].alive /\ UNCHANGED <<held, faults>>
       \/ /\ IF held[w].alive
             THEN faults < MaxFaults /\ faults' = faults + 1
             ELSE faults' = faults
          /\ held' = [held EXCEPT ![w] = Lost]
    /\ Goto(w, "clear")
    /\ UNCHANGED <<tables, cancels, at, why, todo, invocation>>

WarmDone(w) ==
    /\ pc[w] \in {"evict", "preload"} /\ todo[w] = {}
    /\ why' = [why EXCEPT ![w] = None]
    /\ Goto(w, "idle")
    /\ UNCHANGED <<tables, cancels, at, held, todo, invocation, faults>>

-----------------------------------------------------------------------------
(* The specification *)

Reconcile(t) ==
    \/ ClearOrphanBusy(t) \/ Reclaim(t) \/ StaleDone(t) \/ FindMissing(t)
    \/ \E s \in Slot : CancelStale(t, s) \/ RespawnMissing(t, s)

Spawn(t) == Reap(t) \/ Create(t) \/ PingOk(t) \/ PingFail(t)

Return(t) == ClearCheckout(t) \/ PutBack(t)

Invoke(j) ==
    \/ Placing(j) \/ PlacingAborted(j)
    \/ ListIdle(j) \/ NoPlacement(j) \/ Claim(j)
    \/ PickPinned(j) \/ PinRefused(j) \/ PinKill(j) \/ PinClaim(j)
    \/ \E s \in Slot : PinCheck(j, s)
    \/ Take(j) \/ Mark(j) \/ RamRefused(j)
    \/ RunOk(j) \/ RunFail(j)
    \/ Retry(j) \/ Finish(j)
    \/ TpStop(j) \/ TpMark(j) \/ TpSpawn(j) \/ TpRun(j) \/ TpRestore(j)
    \/ TpClear(j)

Warm(w) ==
    \/ PreloadTake(w) \/ WarmMark(w) \/ WarmRpc(w) \/ WarmDone(w)
    \/ \E s \in Slot : \/ EvictTake(w, s) \/ PreloadEvict(w, s)
                       \/ PreloadClaim(w, s) \/ PreloadSkip(w, s)

JobStepOf(j) == Reconcile(j) \/ Spawn(j) \/ Return(j) \/ Invoke(j)
MaintainerStep(m) == StartReconcile(m) \/ Reconcile(m) \/ Spawn(m)
WarmerStep(w) == Warm(w) \/ Return(w)

Environment ==
    \/ \E j \in Job : Submit(j) \/ Cancel(j) \/ Token(j)
    \/ \E s \in Slot : Age(s)
    \/ \E w \in Warmer : StartEvictAll(w) \/ StartPreload(w)

Next ==
    \/ \E j \in Job : JobStepOf(j)
    \/ \E m \in Maintainer : MaintainerStep(m)
    \/ \E w \in Warmer : WarmerStep(w)
    \/ Environment

Spec == Init /\ [][Next]_vars

\* A task is scheduled by tokio as long as it can run, every RPC is ended by
\* its watchdog, and the heartbeat ticks forever; nothing obliges the cloud to
\* submit, cancel or warm.
FairSpec ==
    /\ Spec
    /\ \A j \in Job : WF_vars(JobStepOf(j))
    /\ \A m \in Maintainer : WF_vars(MaintainerStep(m))
    /\ \A w \in Warmer : WF_vars(WarmerStep(w))

-----------------------------------------------------------------------------
(* Properties *)

\* Task t is between marking a checkout of slot s and clearing it.
Marked(t, s) ==
    \/ /\ at[t] = s
       /\ \/ pc[t] \in {"run", "warmRpc", "clear"}
          \/ pc[t] \in SpawnStep /\ why[t] = "restore"
    \/ /\ t \in Job /\ s \in place[t]
       /\ pc[t] \in {"tpSpawn", "tpRun", "tpRestore", "tpUndo", "tpClear"}

\* An entry of the checkout table belongs to a task that is still using the
\* slot and will clear it, whichever path it takes out of the invoke: were one
\* leaked, has_in_flight_work would stay true and the busy state never heal.
CheckoutHeld ==
    \A s \in Slot : checkouts[s] # None => Marked(checkouts[s], s)

\* A registered cancel signal belongs to an invoke that has not returned, and
\* an invoke that waits for its signal can be reached by cancel_invoke (or has
\* been notified already): no exit path leaks an entry, no retry loses one.
CancelsInFlight ==
    /\ \A j \in registered : pc[j] \notin {"idle", "done"}
    /\ \A j \in Job : Awaiting(j) => j \in registered \cup woken

\* Every invoke that starts returns, whatever dies under it.
EveryInvokeEnds == \A j \in Job : pc[j] # "idle" ~> pc[j] = "done"

\* Whatever the interleaving and the faults, the slots come back: again and
\* again every slot has a worker in the map that is not flagged busy.
SlotsComeBack ==
    []<>(\A s \in Slot : workers[s] # None /\ ~workers[s].busy /\ checkouts[s] = None)

\* How an invoke looks to its caller.  Its outcome is settled as soon as the
\* verdict cannot be followed by a retry; what remains is cleaning up.
Settled(j) == verdict[j] # "none" /\ ~Retryable(j)

Stage(j) ==
    IF pc[j] = "idle" THEN "new"
    ELSE IF Settled(j) THEN "ended"
    ELSE IF pc[j] \in {"run", "tpRun"} \/ Retryable(j) THEN "running"
    ELSE "waiting"

stages == [j \in Job |-> Stage(j)]
places == [j \in Job |-> IF Stage(j) = "running" THEN place[j] ELSE {}]
heard == [j \in Job |-> streamed[j] # {}]
results == [j \in Job |-> IF ~Settled(j) THEN "none"
                         ELSE IF verdict[j] = "ok" THEN "ok" ELSE "failed"]

Contract == INSTANCE InvokeContract WITH
    stage <- stages, where <- places, tried <- skip, spoke <- heard,
    result <- results

\* invoke() keeps the contract: a crash is retried only before the first token
\* and only on other slots, a pin is never left, and the outcome of an invoke
\* is decided once.
KeepsContract == Contract!ContractSpec

-----------------------------------------------------------------------------
(* What comments of the source say and the model refutes: README.md tells how *)

\* The live processes of slot s, each named by the task that owns it (None for
\* the one in the map).
Processes(s) ==
    {t \in Task : at[t] = s /\ held[t] # None /\ held[t].alive}
        \cup {n \in {None} : workers[s] # None /\ workers[s].alive}

\* "Always clear same-named leftovers before create - covers respawn and
\* supervisor-rebuild races" (spawn_worker): a slot has one process at most.
OneProcessPerSlot == \A s \in Slot : Cardinality(Processes(s)) <= 1

\* "Plan slots that exist in neither map nor checkouts (lost after panic)"
\* (reconcile_slots): a respawn never kills a worker that is merely lent.
ReapSparesLent ==
    [][\A t \in Task : pc[t] = "reap" /\ why[t] = "missing" =>
          \A u \in Task \ {t} : u \in Processes(at[t]) =>
              held'[u] = None \/ held'[u].alive]_vars

\* "NVIDIA slots we refused to start because the driver cannot run this CUDA"
\* (Supervisor.unusable_slots): no worker of such a slot is ever created.
RefusedStaysStopped == \A s \in Refused : Processes(s) = {}

\* "If reconcile already respawned a healthy idle worker into this slot, kill
\* the returning process instead" (return_worker): once every task is at rest
\* the worker a slot offers is a live one.
OfferedIsAlive ==
    (\A t \in Task : pc[t] \in {"idle", "done"}) =>
        \A s \in Slot : Idle(s) => workers[s].alive

\* "Kill an in-flight invoke (router abandon / timeout). Returns true if a job
\* was signaled" (cancel_invoke): a signaled invoke does not go on to start a
\* worker afterwards.
SignaledNeverStarts ==
    [][\A j \in signaled : pc[j] = "mark" => pc'[j] # "run"]_vars

\* "Must exceed invoke deadline or Full Debug reclaim kills mid-decode"
\* (STUCK_CHECKOUT): a job is told to stop only by the cloud, never by the
\* reclaim of its own checkout.
OnlyTheCloudCancels == woken \subseteq signaled
=============================================================================
