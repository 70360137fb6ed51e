------------------------------- MODULE Session -------------------------------
(***************************************************************************)
(* The session of scalattice-agent (agent.rs): which invokes it admits,    *)
(* how it counts them, and how it replaces the compute supervisor when the *)
(* devices change.  Invokes and refreshes are tasks that interleave at     *)
(* every `.await`; the session state is one mutex, so a block that holds   *)
(* it is one action.  A split invoke runs half of a model inside the agent  *)
(* process itself: it waits for the KV state of the other half, which comes *)
(* in pieces, and borrows no worker.                                        *)
(***************************************************************************)
EXTENDS Integers, FiniteSets

CONSTANTS
    Job,        \* invokes the cloud sends in this session
    Split,      \* those of them that are split invokes
    Pieces,     \* messages the KV state of a split invoke comes in
    Bare,       \* versions of the device policy that enable no device
    Refresher,  \* tasks that run refresh_slot_cache
    MaxJobs,    \* cached_max_jobs
    MaxChanges, \* bound on changes of the device policy or the device VRAM
    MaxStarts,  \* bound on the starts after which slots may seem outgrown
    MaxFaults   \* bound on failed detections and failed starts

ASSUME SessionAssumption ==
    /\ IsFiniteSet(Job) /\ Split \subseteq Job /\ MaxJobs \in Nat \ {0}
    /\ Pieces \in Nat \ {0} /\ Bare \subseteq 1..MaxChanges
    /\ MaxChanges \in Nat /\ MaxStarts \in Nat /\ MaxFaults \in Nat

VARIABLES
    count,       \* active_job_count
    pending,     \* pending_supervisor_restart
    restarting,  \* supervisor_restarting
    supervisor,  \* the current supervisor: its generation, 0 when there is none
    wanted,      \* version of the device policy and of the device VRAM
    cachedFor,   \* the version the cached slots show
    built,       \* the version each generation was started with
    up,          \* the generations whose workers are alive
    stage,       \* where each invoke stands
    uses,        \* the generation an invoke was admitted to
    canceled,    \* invokes in the session that a heal has canceled
    pieces,      \* pieces of each split state received and not yet taken
    overdue,     \* split invokes that have waited WS_STATE_CHUNK_WAIT
    gate,        \* split invokes that hold the mmap gate of their supervisor
    deviceless,  \* split invokes placed when there was no device to place on
    pc,          \* where each refresh stands
    target,      \* the version a refresh is restarting for
    doomed,      \* the generation a refresh has taken out
    sawBusy,     \* the refresh saw a busy slot
    sawFlight,   \* the refresh saw a checkout
    faults

session == <<count, pending, restarting, supervisor, cachedFor>>
jobs == <<stage, uses, canceled>>
inbound == <<pieces, overdue>>
splits == <<inbound, gate, deviceless>>
refresh == <<target, doomed, sawBusy, sawFlight>>
vars == <<session, wanted, built, up, jobs, splits, pc, refresh, faults>>

\* Stages between the two updates of active_job_count.
Counted == {"admitted", "claimed", "lent", "returned", "dropped"}
SplitCounted == {"gate", "decode", "answer", "leaked"}
Waiting == {"look", "window", "asleep", "orphan"}

Stage == Counted \cup SplitCounted \cup Waiting \cup {"new", "place", "placed", "done"}

SessionTypes ==
    /\ count \in 0..(MaxJobs + Cardinality(Split))
    /\ pending \in BOOLEAN /\ restarting \in BOOLEAN
    /\ supervisor \in DOMAIN built \cup {0}
    /\ wanted \in 0..MaxChanges /\ cachedFor \in 0..MaxChanges
    /\ \A g \in DOMAIN built : built[g] \in 0..MaxChanges
    /\ up \subseteq DOMAIN built /\ faults \in 0..MaxFaults

JobTypes ==
    /\ stage \in [Job -> Stage]
    /\ uses \in [Job -> DOMAIN built \cup {0}]
    /\ canceled \subseteq Job

SplitTypes ==
    /\ pieces \in [Split -> 0..Pieces]
    /\ overdue \subseteq Split /\ gate \subseteq Split /\ deviceless \subseteq Split
    /\ \A j \in gate : uses[j] # 0

RefreshTypes ==
    /\ pc \in [Refresher -> {"idle", "detect", "take", "shutdown", "start",
                             "slots", "flight", "heal", "cancel"}]
    /\ target \in [Refresher -> 0..MaxChanges]
    /\ doomed \in [Refresher -> DOMAIN built \cup {0}]
    /\ sawBusy \in [Refresher -> BOOLEAN] /\ sawFlight \in [Refresher -> BOOLEAN]

TypeOK == SessionTypes /\ JobTypes /\ SplitTypes /\ RefreshTypes

Init ==
    /\ count = 0 /\ pending = FALSE /\ restarting = FALSE
    /\ supervisor = 1 /\ wanted = 0 /\ cachedFor = 0
    /\ built = <<0>> /\ up = {1}
    /\ stage = [j \in Job |-> "new"] /\ uses = [j \in Job |-> 0] /\ canceled = {}
    /\ pieces = [j \in Split |-> 0] /\ overdue = {} /\ gate = {}
    /\ deviceless = {}
    /\ pc = [r \in Refresher |-> "idle"]
    /\ target = [r \in Refresher |-> 0] /\ doomed = [r \in Refresher |-> 0]
    /\ sawBusy = [r \in Refresher |-> FALSE]
    /\ sawFlight = [r \in Refresher |-> FALSE]
    /\ faults = 0

Goto(r, label) == pc' = [pc EXCEPT ![r] = label]
ForgetTarget(r) == target' = [target EXCEPT ![r] = 0]
Move(j, from, to) == stage[j] = from /\ stage' = [stage EXCEPT ![j] = to]

-----------------------------------------------------------------------------
(* respond_invoke *)

\* (mutant) an invoke that finds no supervisor returns before its lease exists.
Admit_NoLease(j) ==
    /\ j \notin Split
    /\ ~restarting /\ count < MaxJobs
    /\ count' = count + 1
    /\ Move(j, "new", IF supervisor = 0 THEN "done" ELSE "admitted")
    /\ uses' = [uses EXCEPT ![j] = supervisor]
    /\ UNCHANGED <<pending, restarting, supervisor, cachedFor, wanted, built, up,
                   canceled, splits, pc, refresh, faults>>

\* Admission; without a supervisor the invoke returns at once and its lease is
\* dropped.
Admit(j) ==
    /\ j \notin Split
    /\ ~restarting /\ count < MaxJobs
    /\ count' = count + 1
    /\ Move(j, "new", IF supervisor = 0 THEN "dropped" ELSE "admitted")
    /\ uses' = [uses EXCEPT ![j] = supervisor]
    /\ UNCHANGED <<pending, restarting, supervisor, cachedFor, wanted, built, up,
                   canceled, splits, pc, refresh, faults>>

\* What Supervisor::invoke does to the slots: claim a busy flag and check the
\* worker out.
Invoke(j) ==
    /\ Move(j, "admitted", "claimed") \/ Move(j, "claimed", "lent")
    /\ UNCHANGED <<session, wanted, built, up, uses, canceled, splits, pc,
                   refresh, faults>>

\* The worker is given back, or there was none to be had; the result or the
\* error goes to the cloud.
Returns(j) ==
    /\ Move(j, "lent", "returned") \/ Move(j, "admitted", "returned")
    /\ uses' = [uses EXCEPT ![j] = 0]
    /\ UNCHANGED <<session, wanted, built, up, canceled, splits, pc, refresh,
                   faults>>

\* The task of the invoke panics; ActiveJobLease::drop spawns the decrement.
Abort(j) ==
    /\ j \notin Split
    /\ stage[j] \in Counted \ {"dropped"}
    /\ stage' = [stage EXCEPT ![j] = "dropped"]
    /\ uses' = [uses EXCEPT ![j] = 0]
    /\ UNCHANGED <<session, wanted, built, up, canceled, splits, pc, refresh,
                   faults>>

\* (mutant) the decrement does not stop at zero.
Decrement_Wraps(j) ==
    /\ Move(j, "returned", "done") \/ Move(j, "dropped", "done")
    /\ count' = count - 1
    /\ uses' = [uses EXCEPT ![j] = 0]
    /\ canceled' = canceled \ {j}
    /\ gate' = gate \ {j}
    /\ UNCHANGED <<pending, restarting, supervisor, cachedFor, wanted, built, up,
                   inbound, deviceless, pc, refresh, faults>>

\* At the end of respond_invoke and of respond_invoke_split (which then lets go
\* of the mmap gate), or by the dropped lease; it saturates, for a
\* heal may have cleared the count before.
Decrement(j) ==
    /\ Move(j, "returned", "done") \/ Move(j, "dropped", "done")
    /\ count' = IF count = 0 THEN 0 ELSE count - 1
    /\ uses' = [uses EXCEPT ![j] = 0]
    /\ canceled' = canceled \ {j}
    /\ gate' = gate \ {j}
    /\ UNCHANGED <<pending, restarting, supervisor, cachedFor, wanted, built, up,
                   inbound, deviceless, pc, refresh, faults>>

-----------------------------------------------------------------------------
(* The state of a split invoke: push_inbound_split_chunk and                *)
(* wait_inbound_split_state.  The pieces may come before the invoke does.   *)

\* Whoever sleeps on the entry is woken by each of its pieces.
Chunk(j) ==
    /\ stage[j] \in {"new"} \cup Waiting
    /\ pieces[j] < Pieces
    /\ pieces' = [pieces EXCEPT ![j] = @ + 1]
    /\ stage' = IF stage[j] = "asleep" THEN [stage EXCEPT ![j] = "look"] ELSE stage
    /\ UNCHANGED <<session, wanted, built, up, uses, canceled, overdue, gate,
                   deviceless, pc, refresh, faults>>

\* A piece that takes the state beyond what the cloud's socket allows drops the
\* entry, and the waiter is left with a signal nobody raises any more.
TooLarge(j) ==
    /\ stage[j] \in {"new"} \cup Waiting
    /\ pieces[j] < Pieces
    /\ faults < MaxFaults /\ faults' = faults + 1
    /\ pieces' = [pieces EXCEPT ![j] = 0]
    /\ stage' = IF stage[j] \in {"window", "asleep"} /\ j \notin overdue
                THEN [stage EXCEPT ![j] = "orphan"] ELSE stage
    /\ UNCHANGED <<session, wanted, built, up, uses, canceled, overdue, gate,
                   deviceless, pc, refresh>>

\* WS_STATE_CHUNK_WAIT has passed; it ends a sleep, whatever it was for.
Deadline(j) ==
    /\ stage[j] \in Waiting /\ j \notin overdue
    /\ overdue' = overdue \cup {j}
    /\ stage' = IF stage[j] \in {"asleep", "orphan"}
                THEN [stage EXCEPT ![j] = "look"] ELSE stage
    /\ UNCHANGED <<session, wanted, built, up, uses, canceled, pieces, gate,
                   deviceless, pc, refresh, faults>>

\* The waiter forgets what it was waiting for, and the entry goes with it.
Forget(j) ==
    /\ pieces' = [pieces EXCEPT ![j] = 0]
    /\ overdue' = overdue \ {j}

\* (mutant) the clock is asked before the entry is.
Look_DeadlineFirst(j) ==
    /\ \/ j \in overdue /\ Move(j, "look", "done") /\ Forget(j)
       \/ /\ j \notin overdue /\ pieces[j] = Pieces
          /\ Move(j, "look", "place") /\ Forget(j)
       \/ /\ j \notin overdue /\ pieces[j] < Pieces
          /\ Move(j, "look", "window") /\ UNCHANGED inbound
    /\ UNCHANGED <<session, wanted, built, up, uses, canceled, gate, deviceless,
                   pc, refresh, faults>>

\* Under the session lock: take the state if it is complete.
Look(j) ==
    /\ \/ pieces[j] = Pieces /\ Move(j, "look", "place") /\ Forget(j)
       \/ pieces[j] < Pieces /\ Move(j, "look", "window") /\ UNCHANGED inbound
    /\ UNCHANGED <<session, wanted, built, up, uses, canceled, gate, deviceless,
                   pc, refresh, faults>>

\* The lock is free again and `notified()` is not called yet: a piece that comes
\* now wakes nobody.  Past the deadline the entry is removed as it stands.
AfterLook(j) ==
    /\ \/ j \notin overdue /\ Move(j, "window", "asleep") /\ UNCHANGED inbound
       \/ j \in overdue /\ Move(j, "window", "done") /\ Forget(j)
    /\ UNCHANGED <<session, wanted, built, up, uses, canceled, gate, deviceless,
                   pc, refresh, faults>>

-----------------------------------------------------------------------------
(* respond_invoke_split *)

\* Only a segment that continues another one waits for its state.
Receive(j) ==
    /\ j \in Split
    /\ Move(j, "new", "look") \/ (pieces[j] = 0 /\ Move(j, "new", "place"))
    /\ UNCHANGED <<session, wanted, built, up, uses, canceled, splits, pc, refresh,
                   faults>>

\* devices_for_split of the supervisor, which may refuse; without one the first
\* enabled device, if any.
Place(j) ==
    /\ \/ supervisor # 0 /\ Move(j, "place", "done") /\ UNCHANGED <<uses, deviceless>>
       \/ /\ Move(j, "place", "placed")
          /\ uses' = [uses EXCEPT ![j] = supervisor]
          /\ deviceless' = IF supervisor = 0 /\ wanted \in Bare
                           THEN deviceless \cup {j} ELSE deviceless
    /\ UNCHANGED <<session, wanted, built, up, canceled, inbound, gate, pc, refresh,
                   faults>>

\* No limit of concurrent jobs here, and no lease.
AdmitSplit(j) ==
    /\ \/ /\ restarting /\ Move(j, "placed", "done")
          /\ uses' = [uses EXCEPT ![j] = 0]
          /\ deviceless' = deviceless \ {j}
          /\ UNCHANGED count
       \/ /\ ~restarting /\ Move(j, "placed", "gate")
          /\ count' = count + 1
          /\ UNCHANGED <<uses, deviceless>>
    /\ UNCHANGED <<pending, restarting, supervisor, cachedFor, wanted, built, up,
                   canceled, inbound, gate, pc, refresh, faults>>

\* Another split holds the gate, or a job whose weights fill the RAM may.
GateTaken(j) ==
    /\ uses[j] # 0
    /\ \/ \E k \in gate : uses[k] = uses[j]
       \/ \E k \in Job \ Split : stage[k] \in {"claimed", "lent"} /\ uses[k] = uses[j]

\* The wait for the mmap gate of the supervisor it was placed by ends after 45 s.
GateTimesOut(j) ==
    /\ GateTaken(j)
    /\ Move(j, "gate", "returned")
    /\ UNCHANGED <<session, wanted, built, up, uses, canceled, splits, pc, refresh,
                   faults>>

\* With the gate, if there is a supervisor, comes the engine; InferenceEngine::new
\* fails without a device and leaves the function at once, with the count as it
\* is and without an answer.
StartEngine(j) ==
    /\ ~\E k \in gate : uses[k] = uses[j]
    /\ \/ /\ j \notin deviceless /\ Move(j, "gate", "decode")
          /\ gate' = IF uses[j] = 0 THEN gate ELSE gate \cup {j}
          /\ UNCHANGED deviceless
       \/ /\ j \in deviceless /\ Move(j, "gate", "leaked")
          /\ deviceless' = deviceless \ {j}
          /\ UNCHANGED gate
    /\ UNCHANGED <<session, wanted, built, up, uses, canceled, inbound, pc, refresh,
                   faults>>

\* split_lower, split_upper or the preload on a blocking thread: a result or an
\* error, and both come back here.
Decode(j) ==
    /\ Move(j, "decode", "answer")
    /\ UNCHANGED <<session, wanted, built, up, uses, canceled, splits, pc, refresh,
                   faults>>

\* send_invoke_split_result, in pieces when the state is long, or the error.
Answer(j) ==
    /\ Move(j, "answer", "returned")
    /\ UNCHANGED <<session, wanted, built, up, uses, canceled, splits, pc, refresh,
                   faults>>

SplitStep(j) ==
    \/ Look(j) \/ AfterLook(j) \/ Deadline(j) \/ Place(j) \/ AdmitSplit(j)
    \/ GateTimesOut(j) \/ StartEngine(j) \/ Decode(j) \/ Answer(j) \/ Decrement(j)

-----------------------------------------------------------------------------
(* refresh_slot_cache *)

\* A device is toggled in the dashboard, or the detected VRAM has grown.
DevicesChange ==
    /\ wanted < MaxChanges
    /\ wanted' = wanted + 1
    /\ pending' = TRUE
    /\ UNCHANGED <<count, restarting, supervisor, cachedFor, built, up, jobs,
                   splits, pc,
                   refresh, faults>>

\* The pending flag is claimed at once; slots that show too little VRAM set it.
Claim(r) ==
    /\ pc[r] = "idle"
    /\ \E outgrown \in {FALSE, cachedFor # wanted /\ Cardinality(DOMAIN built) < MaxStarts} :
         IF (pending \/ outgrown) /\ count = 0
         THEN /\ pending' = FALSE
              /\ target' = [target EXCEPT ![r] = wanted]
              /\ Goto(r, "detect")
         ELSE /\ pending' = (pending \/ outgrown)
              /\ Goto(r, "slots")
              /\ UNCHANGED target
    /\ UNCHANGED <<count, restarting, supervisor, cachedFor, wanted, built, up,
                   jobs, splits, doomed, sawBusy, sawFlight, faults>>

Detect(r) ==
    /\ pc[r] = "detect"
    /\ \/ Goto(r, "take") /\ UNCHANGED <<pending, target, faults>>
       \/ /\ faults < MaxFaults /\ faults' = faults + 1
          /\ pending' = TRUE
          /\ ForgetTarget(r)
          /\ Goto(r, "slots")
    /\ UNCHANGED <<count, restarting, supervisor, cachedFor, wanted, built, up,
                   jobs, splits, doomed, sawBusy, sawFlight>>

\* A job may have started during the detection.
TakeSupervisor(r) ==
    /\ pc[r] = "take"
    /\ IF count > 0
       THEN /\ pending' = TRUE
            /\ ForgetTarget(r)
            /\ Goto(r, "slots")
            /\ UNCHANGED <<restarting, supervisor, doomed>>
       ELSE /\ restarting' = TRUE
            /\ doomed' = [doomed EXCEPT ![r] = supervisor]
            /\ supervisor' = 0
            /\ Goto(r, "shutdown")
            /\ UNCHANGED <<pending, target>>
    /\ UNCHANGED <<count, cachedFor, wanted, built, up, jobs, splits, sawBusy,
                   sawFlight,
                   faults>>

Shutdown(r) ==
    /\ pc[r] = "shutdown"
    /\ up' = up \ {doomed[r]}
    /\ Goto(r, "start")
    /\ UNCHANGED <<session, wanted, built, jobs, splits, refresh, faults>>

\* Supervisor::start reaps the processes of every slot before it spawns its
\* own, whoever they belong to.
StartOk(r) ==
    LET g == Cardinality(DOMAIN built) + 1 IN
    /\ pc[r] = "start" /\ target[r] \notin Bare
    /\ built' = [h \in 1..g |-> IF h = g THEN target[r] ELSE built[h]]
    /\ up' = {g}
    /\ supervisor' = g
    /\ restarting' = FALSE
    /\ doomed' = [doomed EXCEPT ![r] = 0]
    /\ ForgetTarget(r)
    /\ Goto(r, "slots")
    /\ UNCHANGED <<count, pending, cachedFor, wanted, jobs, splits, sawBusy,
                   sawFlight,
                   faults>>

\* (mutant) a failed start is not tried again.
StartFailed_Forgotten(r) ==
    /\ pc[r] = "start"
    /\ faults < MaxFaults /\ faults' = faults + 1
    /\ up' = {}
    /\ restarting' = FALSE
    /\ doomed' = [doomed EXCEPT ![r] = 0]
    /\ ForgetTarget(r)
    /\ Goto(r, "slots")
    /\ UNCHANGED <<count, pending, supervisor, cachedFor, wanted, built, jobs, splits,
                   sawBusy, sawFlight>>

StartFailed(r) ==
    /\ pc[r] = "start"
    /\ \/ target[r] \in Bare /\ UNCHANGED faults
       \/ faults < MaxFaults /\ faults' = faults + 1
    /\ up' = {}
    /\ restarting' = FALSE /\ pending' = TRUE
    /\ doomed' = [doomed EXCEPT ![r] = 0]
    /\ ForgetTarget(r)
    /\ Goto(r, "slots")
    /\ UNCHANGED <<count, supervisor, cachedFor, wanted, built, jobs, splits, sawBusy,
                   sawFlight>>

\* slot_statuses: a slot is busy when it is claimed or checked out.
ReadSlots(r) ==
    /\ pc[r] = "slots"
    /\ IF supervisor = 0
       THEN Goto(r, "idle") /\ UNCHANGED <<doomed, sawBusy>>
       ELSE /\ sawBusy' = [sawBusy EXCEPT ![r] =
                             \E j \in Job : stage[j] \in {"claimed", "lent"}]
            /\ doomed' = [doomed EXCEPT ![r] = supervisor]
            /\ Goto(r, "flight")
    /\ UNCHANGED <<session, wanted, built, up, jobs, splits, target, sawFlight,
                   faults>>

\* (mutant) a registered cancel signal counts as work in flight.
ReadFlight_Cancels(r) ==
    /\ pc[r] = "flight"
    /\ sawFlight' = [sawFlight EXCEPT ![r] =
                       \E j \in Job : stage[j] \in Counted]
    /\ Goto(r, "heal")
    /\ UNCHANGED <<session, wanted, built, up, jobs, splits, target, doomed,
                   sawBusy, faults>>

\* has_in_flight_work
ReadFlight(r) ==
    /\ pc[r] = "flight"
    /\ sawFlight' = [sawFlight EXCEPT ![r] = \E j \in Job : stage[j] = "lent"]
    /\ Goto(r, "heal")
    /\ UNCHANGED <<session, wanted, built, up, jobs, splits, target, doomed,
                   sawBusy, faults>>

\* Publish the slots; clear a count that neither reading explains.
Heal(r) ==
    LET stale == count > 0 /\ ~sawBusy[r] /\ ~sawFlight[r] IN
    /\ pc[r] = "heal"
    /\ cachedFor' = built[doomed[r]]
    /\ count' = IF stale THEN 0 ELSE count
    /\ doomed' = [doomed EXCEPT ![r] = 0]
    /\ sawBusy' = [sawBusy EXCEPT ![r] = FALSE]
    /\ sawFlight' = [sawFlight EXCEPT ![r] = FALSE]
    /\ Goto(r, IF stale THEN "cancel" ELSE "idle")
    /\ UNCHANGED <<pending, restarting, supervisor, wanted, built, up, jobs, splits,
                   target, faults>>

\* cancel_all_invokes reaches every invoke that is waiting for its signal.
HealCancels(r) ==
    /\ pc[r] = "cancel"
    /\ canceled' = canceled \cup {j \in Job : stage[j] \in {"admitted", "lent"}}
    /\ Goto(r, "idle")
    /\ UNCHANGED <<session, wanted, built, up, stage, uses, splits, refresh, faults>>

Refresh(r) ==
    \/ Claim(r) \/ Detect(r) \/ TakeSupervisor(r) \/ Shutdown(r)
    \/ StartOk(r) \/ StartFailed(r)
    \/ ReadSlots(r) \/ ReadFlight(r) \/ Heal(r) \/ HealCancels(r)

Next ==
    \/ DevicesChange
    \/ \E j \in Job \ Split : Admit(j) \/ Invoke(j) \/ Returns(j) \/ Abort(j)
                          \/ Decrement(j)
    \/ \E j \in Split : Chunk(j) \/ TooLarge(j) \/ Receive(j) \/ SplitStep(j)
    \/ \E r \in Refresher : Refresh(r)

Spec == Init /\ [][Next]_vars

\* The heartbeat refreshes forever and a spawned decrement runs; an invoke that
\* hangs is not obliged to end.  A split decodes at most max_tokens in process.
FairSpec ==
    /\ Spec
    /\ \A r \in Refresher : WF_vars(Refresh(r))
    /\ \A j \in Job \ Split : WF_vars(stage[j] = "dropped" /\ Decrement(j))
    /\ \A j \in Split : WF_vars(SplitStep(j))

-----------------------------------------------------------------------------
(* Properties *)

\* The counter never claims more jobs than there are invokes between admission
\* and their last act: neither a panic nor an early return leaves one counted,
\* but for a split that has no device (NoLeak).
CountNeverHigh ==
    count <= Cardinality({j \in Job : stage[j] \in Counted \cup SplitCounted})

\* A machine does not stay busy for nothing: even when an invoke hangs before
\* it has a slot, the count is again and again zero or backed by a slot in use.
NoFalseBusy == []<>(count = 0 \/ \E j \in Job : stage[j] \in {"claimed", "lent"})

\* The session is not left without a supervisor.
SupervisorReturns == supervisor = 0 ~> supervisor # 0

\* A split invoke that sleeps while the last piece of its state is there still
\* gets the state: a wake-up that is lost costs time, never the state.
NoStateLost ==
    \A j \in Split :
        stage[j] \in {"asleep", "orphan"} /\ pieces[j] = Pieces ~> stage[j] = "place"

-----------------------------------------------------------------------------
(* What comments of the source say and the model refutes: README.md tells how *)

\* "Claim the pending flag immediately so concurrent refresh callers don't start
\* a second Supervisor::start in parallel" (refresh_slot_cache).
AtMostOneStart == Cardinality({r \in Refresher : pc[r] = "start"}) <= 1

\* "Leave the live workers alone until the machine is idle again"
\* (refresh_slot_cache): no job is using the supervisor that is shut down.
RestartSparesJobs ==
    \A r \in Refresher : pc[r] = "shutdown" =>
        ~\E j \in Job : stage[j] = "lent" /\ uses[j] = doomed[r]

\* "Hold the mmap gate for the whole split so concurrent tier2.5 jobs cannot
\* double-mmap a large GGUF in the parent" (respond_invoke_split).
OneSplitDecodes == Cardinality({j \in Split : stage[j] = "decode"}) <= 1

\* "Undo busy accounting before returning" (respond_invoke_split): no split
\* invoke leaves the function without giving its count back.
NoLeak == \A j \in Split : stage[j] # "leaked"

\* "Heal lied-about busy: counter says jobs remain but nothing is checked out"
\* (refresh_slot_cache): a heal cancels no invoke that has its slot.
HealSparesJobs == [][\A j \in canceled' \ canceled : stage[j] # "lent"]_vars
=============================================================================
