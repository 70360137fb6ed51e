------------------------------- MODULE Dispatch -------------------------------
(* Which slot a job gets, and what that decision is taken from: the block      *)
(* lists, the occupancy watch, system RAM, live VRAM, weights kept warm        *)
(* (Supervisor::invoke and invoke_single of supervisor/host.rs over the        *)
(* operators of Placement; refresh_gpu_occupancy, evict_all and preload_slots; *)
(* the schedule and warm plan of agent.rs).                                    *)
(*                                                                             *)
(* SlotPool has the interleavings inside one claim, the retries of the worker  *)
(* tables and the loss of workers; here a claim is one step, and so are an     *)
(* eviction, the end of a job with the restart of its worker, and a warm plan  *)
(* from its claim to its RPCs. A machine is chosen at the start.               *)
EXTENDS Placement, Occupancy

CONSTANTS Job,        \* text and image invokes, each submitted once
          Catalog,    \* model name -> model
          Scenarios   \* machines with the requests and the events of a run

(* A scenario: devices as the supervisor starts and measured once telemetry is *)
(* in; unusable, the slots that never start; ram, cores, headroom, osUsed;     *)
(* request (job -> model, vision, nCtx, pin); advertised, the models on offer; *)
(* faults, the ways a job fails; foreign, the VRAM other software takes;       *)
(* pongs, the block lists of the server; warmPlans; events and moves, which     *)
(* events from outside happen, and how many.                                   *)

SlotName == {"cuda", "metal", "vulkan", "igpu", "cpu", "any"}
AnySlot == <<"any", 0>>

\* A chat model without a size in the catalog has that of its file; the server's
\* sums count the weights they are about. Each CUDA card has an index of its own.
Chartable(m) ==
    /\ m \in CatalogModel
    /\ m.image \/ m.weight > 0
    /\ m.fullVram = 0 \/ m.fullVram >= m.weight
    /\ m.weightsVram = 0 \/ m.weightsVram >= m.weight
Detected(ds) ==
    /\ ds \in Seq(ComputeDevice)
    /\ \A i \in DOMAIN ds : IsMetal(ds[i]) => ds[i].vendor = "apple"
    /\ \A i, k \in DOMAIN ds : IsCuda(ds[i]) /\ IsCuda(ds[k]) /\ ds[i].index = ds[k].index => i = k
Possible(sc) ==
    /\ Detected(sc.devices) /\ Detected(sc.measured)
    /\ {sc.ram, sc.cores, sc.headroom, sc.osUsed, sc.foreign, sc.moves} \subseteq Nat
    /\ sc.request \in [Job -> [model : DOMAIN Catalog, vision : BOOLEAN, nCtx : Nat,
                               pin : SlotName \X Nat]]
    /\ sc.advertised \subseteq DOMAIN Catalog
    /\ \A p \in sc.warmPlans : p.model \in DOMAIN Catalog

ASSUME DispatchAssumption ==
    /\ \A m \in DOMAIN Catalog : Chartable(Catalog[m])
    /\ \A sc \in Scenarios : Possible(sc)

CpuRamHeadroom == DefaultCpuRamHeadroom
MaxAttempts == 4
DriverLag == 2     \* heartbeats for which freed VRAM may still be reported full

VARIABLES
    scene,         \* the machine of this behaviour
    devices,       \* what telemetry says of its devices
    plan,          \* ComputePlan of the running supervisor
    worker,        \* slot -> here (in the map), healthy, busy, loaded (as told), holds (its
                   \* process, in truth)
    checkout,      \* slot -> job, ram, fresh (younger than 15 s)
    job,           \* invokes
    serverBlocks, localBlocks,   \* <<model, slot>> pairs
    watch,         \* OccupancyWatch
    foreign,       \* slots on which other software holds VRAM
    residue,       \* slot -> heartbeats for which the driver may report old weights
    blind,         \* nvidia-smi gives nothing
    life,          \* VramLifecycleState
    evicting,      \* slots that a running evict_all has before it
    warm,          \* the slots that a running preload_slots has checked out
    moves,         \* events from outside still to come
    burnt,         \* <<model, slot>> that failed since the server's last word
    excused        \* slots whose running candidate was fed by other software, by a second
                   \* release of our own weights, or by a job that has a new worker beside it

pool  == <<worker, checkout>>
truth == <<foreign, residue, blind>>
watched == <<watch, excused>>
blocks == <<serverBlocks, localBlocks, burnt>>
config == <<scene, devices, plan>>
vars == <<config, pool, job, blocks, watched, truth, life, evicting, warm, moves>>

NoJob == "none"
NoCode == "none"
NoHold == [job |-> NoJob, ram |-> 0, fresh |-> FALSE]
Fresh == [here |-> TRUE, healthy |-> TRUE, busy |-> FALSE, loaded |-> {}, holds |-> {}]
Absent == [Fresh EXCEPT !.here = FALSE, !.healthy = FALSE]

Ids == SlotIds(plan)
Slot(id) == SlotOf(plan, id)
Asked(j) == scene.request[j].model      \* the name of the model
Model(j) == Catalog[Asked(j)]
Request(j) == [scene.request[j] EXCEPT !.model = Model(j)]
Pinned(j) == Request(j).pin # AnySlot
FirstOf(ids) == CHOOSE id \in ids : \A other \in ids \ {id} : Largest(Slot(id), Slot(other))

Idle == [pc |-> "off", skip |-> {}, tries |-> 0, place |-> NoPlacement, code |-> NoCode]
Ended(j) == job[j].pc = "done"
Active == {j \in Job : job[j].pc \notin {"off", "done"}}

Available(id) == worker[id].here /\ worker[id].healthy /\ ~worker[id].busy
Running(id) == {j \in Job : job[j].pc = "running" /\ id \in job[j].place.slots}
Held(id) == worker[id].holds \cup {Asked(j) : j \in Running(id)}

StartOn(p) ==
    /\ worker = [id \in SlotIds(p) |-> IF id \in scene.unusable THEN Absent ELSE Fresh]
    /\ checkout = [id \in SlotIds(p) |-> NoHold]
    /\ watch = NewWatch(SlotIds(p)) /\ excused = {}
    /\ foreign = {} /\ residue = [id \in SlotIds(p) |-> 0]

Init ==
    /\ scene \in Scenarios
    /\ devices = scene.devices
    /\ plan = BuildComputeSlots(scene.devices)
    /\ StartOn(plan)
    /\ blind = FALSE
    /\ job = [j \in Job |-> Idle]
    /\ serverBlocks = {} /\ localBlocks = {} /\ burnt = {}
    /\ life = NewLife /\ evicting = {} /\ warm = {}
    /\ moves = scene.moves

-----------------------------------------------------------------------------
(* What the machine shows: VRAM and system RAM.                                *)

Total(S, Amount(_)) == FoldSet(LAMBDA x, sum : sum + Amount(x), 0, S)
Minus(a, b) == IF a > b THEN a - b ELSE 0

WeightGb(names) == IF names = {} THEN 0 ELSE Total(names, LAMBDA m : GbCeil(Catalog[m].weight))

VramTaken(names) == Total(names, LAMBDA m : Catalog[m].weight + Catalog[m].extras)

FreeVram(id) ==
    IF residue[id] > 0 THEN 0
    ELSE Minus(Half(Slot(id).card.vram),
               VramTaken(Held(id)) + IF id \in foreign THEN scene.foreign ELSE 0)

\* nvidia-smi knows the CUDA cards; nothing reports the others.
LiveFree(id) ==
    IF Slot(id).card.strategy = "single" /\ ~blind THEN FreeVram(id) ELSE Unknown

\* The system counts mapped weights as used.
RamUsed == scene.osUsed + Total(Ids, LAMBDA id : WeightGb(Held(id)))
Pending == Total({id \in Ids : checkout[id].fresh}, LAMBDA id : checkout[id].ram)
AvailableSysRam == Minus(Minus(scene.ram, RamUsed), Pending)

-----------------------------------------------------------------------------
(* The slots an invoke may use.                                                *)

Blocked(m) == {id \in Ids : <<m, id>> \in serverBlocks \cup localBlocks}

Usable(s) == /\ Accelerator(s) /\ s.id \notin scene.unusable
             /\ worker[s.id].here /\ worker[s.id].healthy

HostsByDefault(m, s) == CanHostModel(m, s.card, scene.ram, scene.headroom, 0)

\* Checked-out graphics slots; all of them when the table is contended.
InFlightGpu(contended) ==
    SlotIds({s \in plan : /\ Accelerator(s) /\ s.id \notin scene.unusable
                          /\ contended \/ checkout[s.id] # NoHold})

CpuOffered_ByRam(j, contended) ==    \* (mutant) the graphics slots are not looked at
    CpuSlotMayServe(Model(j), scene.ram, scene.headroom, scene.cores)
\* The processor is offered only while no graphics slot, free or at work, could host.
CpuOffered(j, contended) ==
    LET m == Model(j) IN
    /\ ~\E s \in plan :
          /\ Usable(s) /\ HostsByDefault(m, s)
          /\ worker[s.id].busy \/ s.id \notin job[j].skip \cup watch.latched
    /\ ~\E s \in plan : s.id \in InFlightGpu(contended) /\ HostsByDefault(m, s)
    /\ (\E s \in plan : Accelerator(s))
          => CpuSlotMayServe(m, scene.ram, scene.headroom, scene.cores)

IdleFor(j, contended) ==
    SlotIds({s \in plan :
        /\ s.id \notin job[j].skip \cup Blocked(Asked(j)) \cup watch.latched
        /\ Accelerator(s) \/ CpuOffered(j, contended)
        /\ Available(s.id)})

WarmIn(idle) == {id \in idle : worker[id].loaded # {}}

View(idle) ==
    [plan |-> plan, idle |-> idle, ram |-> scene.ram, headroom |-> scene.headroom,
     cores |-> scene.cores, avail |-> AvailableSysRam, warm |-> WarmIn(idle),
     live |-> [id \in Ids |-> LiveFree(id)],
     credit |-> [id \in Ids |-> IF id \in WarmIn(idle) THEN WeightGb(worker[id].loaded) ELSE 0]]

Resident(idle, m) == {id \in idle : m \in worker[id].loaded}

Choice(j, idle) ==
    LET resident == PickResident(View(idle), Request(j), Resident(idle, Asked(j)))
    IN  IF resident # NoPlacement THEN resident ELSE PickPlacement(View(idle), Request(j))
-----------------------------------------------------------------------------
(* Failures: what a failed job says of the slots (fault_scope).                *)

Family(s) ==
    CASE s.card.strategy = "cpu" -> "none"
      [] s.card.strategy = "metal" -> "apple"
      [] s.device.vendor \in {"arc", "intel"} -> "intel"
      [] OTHER -> s.device.vendor

SlotsInFamily(family) == SlotIds({s \in plan : Family(s) = family})

FaultScope(fault, id) ==
    CASE fault = "machine" -> Ids
      [] fault = "origin" /\ Family(Slot(id)) # "none" -> SlotsInFamily(Family(Slot(id)))
      [] fault \in {"nvidia", "amd", "intel", "apple"} ->
            IF SlotsInFamily(fault) = {} THEN {id} ELSE SlotsInFamily(fault)
      [] fault = "resource" -> {id}
      [] OTHER -> {}

NoteSlotFailure_ThisSlot(m, id, fault) ==    \* (mutant) the card alone is blamed
    localBlocks' = localBlocks \cup {<<m, id>>}
NoteSlotFailure(m, id, fault) ==
    localBlocks' = localBlocks \cup {<<m, b>> : b \in FaultScope(fault, id)}

\* What a failure proves, told apart by the devices alone: out of memory is the
\* card's, a missing file the machine's, a driver that of every card of its vendor.
Proves(fault, id) ==
    CASE fault = "resource" -> {id}
      [] fault = "machine" -> Ids
      [] fault = "origin" -> {o \in Ids : /\ Accelerator(Slot(id)) /\ Accelerator(Slot(o))
                                            /\ Slot(o).device.vendor = Slot(id).device.vendor
                                            /\ Slot(o).device.vendor # "none"}
      [] OTHER -> {}
Burn(m, id, fault) == burnt' = burnt \cup {<<m, b>> : b \in Proves(fault, id)}

-----------------------------------------------------------------------------
(* The life of an invoke.                                                      *)

Ends(j, code) == job' = [job EXCEPT ![j].pc = "done", ![j].code = code]

\* The session is told when its last job has ended (respond_invoke).
JobFinishes(j) == life' = IF Active = {j} THEN OnJobFinished(life) ELSE life

Submit(j) ==
    /\ job[j].pc = "off"
    /\ job' = [job EXCEPT ![j].pc = "new"]
    /\ life' = OnJobStarted(life)
    /\ UNCHANGED <<config, pool, blocks, watched, truth, evicting, warm, moves>>

ClaimedBy(j, p) == [job EXCEPT ![j].pc = "claimed", ![j].place = p]
Claimed(j, p) ==
    /\ job' = ClaimedBy(j, p)
    /\ worker' = [id \in Ids |-> IF id \in p.slots THEN [worker[id] EXCEPT !.busy = TRUE]
                                                   ELSE worker[id]]
    /\ UNCHANGED life

\* An unpinned invoke: a slot that holds the model, else the best of the idle ones.
Place(j) ==
    /\ job[j].pc = "new" /\ ~Pinned(j) /\ ~Model(j).image
    /\ \E contended \in BOOLEAN :
         LET idle == IdleFor(j, contended)
             p    == Choice(j, idle)
         IN  IF p # NoPlacement THEN Claimed(j, p)
             ELSE /\ Ends(j, IF job[j].tries > 0 THEN "crash"
                             ELSE PlacementMiss(View(idle), Request(j)))
                  /\ JobFinishes(j) /\ UNCHANGED worker
    /\ UNCHANGED <<config, checkout, blocks, watched, truth, evicting, warm, moves>>

\* preferred_pin_capacity_error: the router's slot, or each slot of its group,
\* must take the model on what its VRAM is now. A processor is never asked.
PinLacksCapacity(j, p) ==
    LET v == [View(Ids) EXCEPT !.warm = {id \in Ids : worker[id].here /\ worker[id].loaded # {}}]
    IN  /\ p.card.strategy # "cpu"
        /\ ~Sees(Request(j), p.card)
           \/ \E id \in p.slots : ~AcceleratorLiveCanPlace(v, Model(j), Slot(id))

\* claim_pin_slot_error, asked of each slot in the order of the plan.
BarredTo(j) == Blocked(Asked(j)) \cup watch.latched
Refusing(j, p) == {id \in p.slots : id \in BarredTo(j) \/ ~worker[id].here \/ worker[id].busy}
PinRefusal(j, p) ==
    LET first == FirstOf(Refusing(j, p)) IN
    CASE PinLacksCapacity(j, p) -> "insufficient_vram"
      [] ~PinLacksCapacity(j, p) /\ Refusing(j, p) = {} -> NoCode
      [] OTHER -> IF first \notin BarredTo(j) /\ ~worker[first].here THEN "agent_busy"
                  ELSE "no_idle_slot"

\* A slot whose worker a group has stopped gets a new one when a pin asks for it,
\* even while the group is at work.
Respawned(id) == IF worker[id].healthy THEN worker[id] ELSE Fresh
PinAsks(j, p) ==
    IF PinLacksCapacity(j, p) THEN {}
    ELSE {id \in p.slots : \A other \in Refusing(j, p) : Largest(Slot(id), Slot(other))}

PlacePinned(j) ==
    /\ job[j].pc = "new" /\ Pinned(j)
    /\ IF Request(j).pin \notin Ids
       THEN Ends(j, "no_idle_slot") /\ JobFinishes(j) /\ UNCHANGED worker
       ELSE LET p    == PlacementForRequired(plan, Request(j), Request(j).pin)
                code == PinRefusal(j, p)
            IN  /\ worker' = [id \in Ids |-> IF id \notin PinAsks(j, p) THEN worker[id]
                                  ELSE [Respawned(id) EXCEPT !.busy = (code = NoCode)]]
                /\ IF code = NoCode THEN job' = ClaimedBy(j, p) /\ UNCHANGED life
                   ELSE Ends(j, code) /\ JobFinishes(j)
    /\ UNCHANGED <<config, checkout, blocks, watched, truth, evicting, warm, moves>>

-----------------------------------------------------------------------------
(* invoke_single: take the worker, check system RAM, reserve it, run.          *)

\* The slot of the job; of a group, the first in the order of the plan.
SlotTaken(j) == FirstOf(job[j].place.slots)
KvOnCard(j) == OffloadKqv(Model(j), job[j].place.card, Request(j).vision, Request(j).nCtx)
AlreadyLoaded(j) == Asked(j) \in worker[SlotTaken(j)].loaded

\* A resident takes RAM only for a KV cache that is not on the card.
JobRamNeed(j) ==
    CASE AlreadyLoaded(j) /\ KvOnCard(j) -> 0
      [] AlreadyLoaded(j) /\ ~KvOnCard(j) -> WarmKvOffloadRamNeed(Model(j), Request(j).vision)
      [] OTHER -> PlacementSysRamNeed(Model(j), job[j].place.card, Request(j).vision, CpuRamHeadroom)

\* Weights that this load evicts first still count as used.
EvictionCredit(j) == IF AlreadyLoaded(j) THEN 0 ELSE WeightGb(worker[SlotTaken(j)].loaded)

Attempts == LET n == Cardinality({s \in plan : Accelerator(s)})
            IN  IF n = 0 THEN 1 ELSE IF n < MaxAttempts THEN n ELSE MaxAttempts

\* A crash before the first token is tried on another slot, unless it was pinned.
AfterFailure_Answers(j, id, fault) ==    \* (mutant) a retried job is answered already
    IF fault = "crash" /\ ~Pinned(j) /\ job[j].tries + 1 < Attempts
    THEN /\ job' = [job EXCEPT ![j].pc = "new", ![j].tries = @ + 1, ![j].code = "crash"]
         /\ UNCHANGED <<blocks, life>>
    ELSE /\ Ends(j, "failed") /\ JobFinishes(j)
         /\ NoteSlotFailure(Asked(j), id, fault) /\ Burn(Asked(j), id, fault)
         /\ UNCHANGED serverBlocks
AfterFailure(j, id, fault) ==
    IF fault = "crash" /\ ~Pinned(j) /\ job[j].tries + 1 < Attempts
    THEN /\ job' = [job EXCEPT ![j].pc = "new", ![j].tries = @ + 1,
                               ![j].skip = @ \cup job[j].place.slots]
         /\ UNCHANGED <<blocks, life>>
    ELSE /\ Ends(j, "failed") /\ JobFinishes(j)
         /\ NoteSlotFailure(Asked(j), id, fault) /\ Burn(Asked(j), id, fault)
         /\ UNCHANGED serverBlocks

Refused(j, id, code, fault) ==
    /\ worker' = [worker EXCEPT ![id].here = TRUE, ![id].busy = FALSE]
    /\ checkout' = [checkout EXCEPT ![id] = NoHold]
    /\ Ends(j, code) /\ JobFinishes(j) /\ NoteSlotFailure(Asked(j), id, fault)
    /\ Burn(Asked(j), id, fault) /\ UNCHANGED serverBlocks

\* The worker is out on another job: an eviction had cleared the busy flag of the
\* claim. (A worker that is in no table is made anew; SlotPool has those.)
TakeMisses(j) ==
    /\ job[j].pc = "claimed" /\ ~job[j].place.tp /\ ~worker[SlotTaken(j)].here
    /\ Ends(j, "agent_busy") /\ JobFinishes(j)
    /\ UNCHANGED <<config, pool, blocks, watched, truth, evicting, warm, moves>>

\* A worker that a group has stopped is taken too: its first RPC fails.
Take(j) ==
    LET id == SlotTaken(j)
        refused == JobRamNeed(j) > AvailableSysRam + EvictionCredit(j) IN
    /\ job[j].pc = "claimed" /\ ~job[j].place.tp /\ ~Model(j).image /\ worker[id].here
    /\ \/ refused /\ Refused(j, id, "insufficient_vram", "resource")
       \/ /\ ~refused /\ worker[id].healthy
          /\ worker' = [worker EXCEPT ![id].here = FALSE]
          /\ job' = [job EXCEPT ![j].pc = "checked"]
          /\ UNCHANGED <<checkout, blocks, life>>
       \/ /\ ~refused /\ ~worker[id].healthy
          /\ worker' = [worker EXCEPT ![id] = Fresh]
          /\ checkout' = [checkout EXCEPT ![id] = NoHold]
          /\ AfterFailure(j, id, "crash")
    /\ UNCHANGED <<config, watched, truth, evicting, warm, moves>>

\* A cold load that reserved nothing may still find no RAM for its KV cache.
\* The code takes the larger of two readings: sibling reservations do not count.
KvHasNoRoom(j) ==
    /\ ~KvOnCard(j) /\ job[j].place.card.strategy # "cpu" /\ JobRamNeed(j) = 0
    /\ Minus(scene.ram, RamUsed) < KvOffloadRam(Model(j), Request(j).vision)

\* return_worker: a worker that comes back is dropped when its slot has another one
\* by now, healthy and idle (a group that ends makes new workers for its slots).
Returns(id, w) == worker' = [worker EXCEPT ![id] = IF Available(id) THEN @ ELSE w]

\* The running model is listed as loaded from here on.
Mark(j) ==
    LET id == SlotTaken(j)
        listed == worker[id].loaded \cup {Asked(j)} IN
    /\ job[j].pc = "checked"
    /\ IF KvHasNoRoom(j)
       THEN /\ Returns(id, [Fresh EXCEPT !.loaded = listed, !.holds = worker[id].holds])
            /\ checkout' = [checkout EXCEPT ![id] = NoHold]
            /\ Ends(j, "insufficient_vram") /\ JobFinishes(j)
            /\ NoteSlotFailure(Asked(j), id, "resource") /\ Burn(Asked(j), id, "resource")
            /\ UNCHANGED <<serverBlocks, residue>>
       ELSE /\ worker' = IF worker[id].here THEN worker
                         ELSE [worker EXCEPT ![id].loaded = listed, ![id].holds = {Asked(j)}]
            /\ checkout' = [checkout EXCEPT ![id] =
                                [job |-> j, ram |-> JobRamNeed(j), fresh |-> TRUE]]
            /\ job' = [job EXCEPT ![j].pc = "running"]
            /\ residue' = [residue EXCEPT ![id] = 0]
            /\ UNCHANGED <<blocks, life>>
    /\ UNCHANGED <<config, watched, foreign, blind, evicting, warm, moves>>

Finish(j) ==
    LET id == SlotTaken(j) IN
    /\ job[j].pc = "running" /\ ~job[j].place.tp /\ ~Model(j).image
    /\ Returns(id, [Fresh EXCEPT !.loaded = {Asked(j)}, !.holds = {Asked(j)}])
    /\ residue' = [residue EXCEPT ![id] = IF Available(id) THEN DriverLag ELSE @]
    /\ checkout' = [checkout EXCEPT ![id] = NoHold]
    /\ Ends(j, "ok") /\ JobFinishes(j)
    /\ UNCHANGED <<config, blocks, watched, foreign, blind, evicting, warm, moves>>

\* Every failure costs the worker its process; its VRAM is free when it is gone.
Fail(j) ==
    LET id == SlotTaken(j) IN
    /\ job[j].pc = "running" /\ ~job[j].place.tp /\ ~Model(j).image
    /\ \E fault \in scene.faults : AfterFailure(j, id, fault)
    /\ Returns(id, Fresh)
    /\ checkout' = [checkout EXCEPT ![id] = NoHold]
    /\ residue' = [residue EXCEPT ![id] = DriverLag]
    /\ UNCHANGED <<config, watched, foreign, blind, evicting, warm, moves>>

\* After 15 s a reservation is taken to show in what the system reports as used.
AgeReservation(id) ==
    /\ checkout[id].fresh
    /\ checkout' = [checkout EXCEPT ![id].fresh = FALSE]
    /\ UNCHANGED <<config, worker, job, blocks, watched, truth, life, evicting, warm, moves>>

-----------------------------------------------------------------------------
(* invoke_image: the llama worker's process ends before Diffusers takes the    *)
(* card, and a new one starts behind it; no system RAM is asked or reserved,   *)
(* nothing is tried again.                                                     *)

PlaceImage(j) ==
    LET idle == {id \in Ids : /\ id \notin Blocked(Asked(j)) \cup watch.latched
                              /\ Available(id)}
        p    == PickPlacement(View(idle), Request(j))
    IN
    /\ job[j].pc = "new" /\ ~Pinned(j) /\ Model(j).image
    /\ IF p # NoPlacement THEN Claimed(j, p)
       ELSE /\ Ends(j, PlacementMiss(View(idle), Request(j)))
            /\ JobFinishes(j) /\ UNCHANGED worker
    /\ UNCHANGED <<config, checkout, blocks, watched, truth, evicting, warm, moves>>

ImageStart(j) ==
    LET id == SlotTaken(j) IN
    /\ job[j].pc = "claimed" /\ Model(j).image /\ worker[id].here
    /\ worker' = [worker EXCEPT ![id].here = FALSE, ![id].loaded = @ \cup {Asked(j)},
                                ![id].holds = {}]
    /\ checkout' = [checkout EXCEPT ![id] = [job |-> j, ram |-> 0, fresh |-> TRUE]]
    /\ job' = [job EXCEPT ![j].pc = "running"]
    /\ residue' = [residue EXCEPT ![id] = 0]
    /\ UNCHANGED <<config, blocks, watched, foreign, blind, life, evicting, warm, moves>>

ImageEnd(j) ==
    LET id == SlotTaken(j) IN
    /\ job[j].pc = "running" /\ Model(j).image
    /\ \/ Ends(j, "ok") /\ UNCHANGED blocks
       \/ \E fault \in scene.faults :
            /\ Ends(j, "failed") /\ NoteSlotFailure(Asked(j), id, fault)
            /\ Burn(Asked(j), id, fault) /\ UNCHANGED serverBlocks
    /\ JobFinishes(j)
    /\ Returns(id, Fresh)
    /\ checkout' = [checkout EXCEPT ![id] = NoHold]
    /\ residue' = [residue EXCEPT ![id] = DriverLag]
    /\ UNCHANGED <<config, watched, foreign, blind, evicting, warm, moves>>

-----------------------------------------------------------------------------
(* invoke_tp: the workers of the group stop, one worker runs over their cards; *)
(* its RAM is reserved on one of them, and not checked.                        *)

TpStart(j) ==
    LET ids == job[j].place.slots IN
    /\ job[j].pc = "claimed" /\ job[j].place.tp
    /\ \A id \in ids : worker[id].here
    /\ worker' = [id \in Ids |-> IF id \in ids
                    THEN [worker[id] EXCEPT !.healthy = FALSE, !.holds = {}] ELSE worker[id]]
    /\ checkout' = [id \in Ids |->
          IF id \notin ids THEN checkout[id]
          ELSE [job |-> j, fresh |-> TRUE,
                ram |-> IF id # SlotTaken(j) THEN 0
                        ELSE PlacementSysRamNeed(Model(j), job[j].place.card, Request(j).vision,
                                                 CpuRamHeadroom)]]
    /\ residue' = [id \in Ids |-> IF id \in ids THEN 0 ELSE residue[id]]
    /\ job' = [job EXCEPT ![j].pc = "running"]
    /\ UNCHANGED <<config, blocks, watched, foreign, blind, life, evicting, warm, moves>>

\* A sibling is out on another job: those before it have been stopped.
TpMisses(j) ==
    LET ids == job[j].place.slots
        out == FirstOf({id \in ids : ~worker[id].here}) IN
    /\ job[j].pc = "claimed" /\ job[j].place.tp
    /\ \E id \in ids : ~worker[id].here
    /\ worker' = [id \in Ids |-> IF id \in ids \ {out} /\ Largest(Slot(id), Slot(out))
                    THEN [worker[id] EXCEPT !.healthy = FALSE, !.holds = {}] ELSE worker[id]]
    /\ residue' = [id \in Ids |-> IF worker'[id].holds # worker[id].holds THEN DriverLag
                                  ELSE residue[id]]
    /\ Ends(j, "failed") /\ JobFinishes(j)
    /\ UNCHANGED <<config, checkout, blocks, watched, foreign, blind, evicting, warm, moves>>

TpEnd(j) ==
    LET ids == job[j].place.slots IN
    /\ job[j].pc = "running" /\ job[j].place.tp
    /\ \/ Ends(j, "ok") /\ JobFinishes(j) /\ UNCHANGED blocks
       \/ \E fault \in scene.faults : AfterFailure(j, SlotTaken(j), fault)
    /\ worker' = [id \in Ids |-> IF id \in ids THEN Fresh ELSE worker[id]]
    /\ checkout' = [id \in Ids |-> IF id \in ids THEN NoHold ELSE checkout[id]]
    /\ residue' = [id \in Ids |-> IF id \in ids THEN DriverLag ELSE residue[id]]
    /\ UNCHANGED <<config, watched, foreign, blind, evicting, warm, moves>>

-----------------------------------------------------------------------------
(* The server's block lists, the heartbeat, the schedule, the warm plan.       *)

Event(kind) == kind \in scene.events /\ moves > 0 /\ moves' = moves - 1

\* A pong with blocks replaces both lists, and forgets what was learned here.
Pong ==
    /\ Event("pong")
    /\ \E list \in scene.pongs : serverBlocks' = list /\ localBlocks' = list
    /\ burnt' = {}
    /\ UNCHANGED <<config, pool, job, watched, truth, life, evicting, warm>>

RawSamples ==
    [id \in Ids |-> RawForeignOccupancy(Slot(id), worker[id].busy \/ ~worker[id].here,
        IF worker[id].here THEN worker[id].loaded ELSE {}, LiveFree(id),
        SmallestAdvertisedNeed(Slot(id).card, {Catalog[m] : m \in scene.advertised}, scene.ram, scene.headroom))]

\* refresh_slot_cache and tick_vram_lifecycle.
Heartbeat ==
    /\ watch' = WatchSample(watch, RawSamples)
    /\ excused' = {id \in Ids : /\ watch'.candidate[id] # Never \/ id \in watch'.latched
                                /\ \/ id \in excused \cup foreign
                                   \/ watch.candidate[id] # Never /\ residue[id] = DriverLag
                                   \/ Running(id) # {}}
    /\ residue' = [id \in Ids |-> Minus(residue[id], 1)]
    /\ life' = Tick(life, Active # {})
    /\ evicting' = IF TickEvicts(life, Active # {}) THEN evicting \cup {id \in Ids : worker[id].here}
                   ELSE evicting
    /\ UNCHANGED <<config, pool, job, blocks, foreign, blind, warm, moves>>

\* Ready and pong messages carry the schedule; leaving earning hours evicts all.
Schedule ==
    /\ Event("schedule")
    /\ life' = ApplySchedule(life, ~life.earning)
    /\ evicting' = IF LeftEarning(life, life'.earning)
                   THEN evicting \cup {id \in Ids : worker[id].here} ELSE evicting
    /\ UNCHANGED <<config, pool, job, blocks, watched, truth, warm>>

GraceEnds ==
    /\ life.grace
    /\ life' = [life EXCEPT !.grace = FALSE]
    /\ UNCHANGED <<config, pool, job, blocks, watched, truth, evicting, warm, moves>>

\* evict_all passes over a slot that is lent by now; it does not look at busy, and
\* gives back even the worker that a group at work has stopped.
EvictSlot(id) ==
    /\ id \in evicting
    /\ evicting' = evicting \ {id}
    /\ worker' = IF worker[id].here
                 THEN [worker EXCEPT ![id].loaded = {}, ![id].busy = FALSE, ![id].holds = {}]
                 ELSE worker
    /\ residue' = [residue EXCEPT ![id] =
                      IF worker[id].here /\ worker'[id].holds # worker[id].holds THEN DriverLag ELSE @]
    /\ \E samples \in IgnoreAfterOurs :
          watch' = IF evicting = {id} THEN NoteOurVram(watch, samples) ELSE watch
    /\ excused' = IF evicting = {id} THEN excused \cap watch.latched ELSE excused
    /\ checkout' = IF worker[id].here THEN [checkout EXCEPT ![id] = NoHold] ELSE checkout
    /\ UNCHANGED <<config, job, blocks, foreign, blind, life, warm, moves>>

\* preload_slots: residents outside the plan go, then the planned slots load.
\* A slot that holds any model already is left as it is.
WarmStart ==
    /\ Event("warm")
    /\ life.earning /\ Active = {} /\ warm = {}
    /\ \A id \in Ids : checkout[id] = NoHold
    /\ \E p \in scene.warmPlans :
         LET free    == {id \in Ids : Available(id) /\ id \notin watch.latched}
             out     == {id \in free \ p.slots : worker[id].loaded # {}}
             targets == {id \in free \cap p.slots : worker[id].loaded = {}}
         IN  /\ worker' = [id \in Ids |->
                    CASE id \in out -> [worker[id] EXCEPT !.loaded = {}, !.holds = {}]
                      [] id \in targets -> [worker[id] EXCEPT !.here = FALSE, !.busy = TRUE,
                                                              !.holds = {p.model}]
                      [] OTHER -> worker[id]]
             /\ residue' = [id \in Ids |-> IF id \in out THEN DriverLag ELSE residue[id]]
             /\ checkout' = [id \in Ids |-> IF id \in targets
                                THEN [job |-> "warm", ram |-> 0, fresh |-> TRUE] ELSE checkout[id]]
             /\ warm' = targets
             /\ life' = IF targets = {} /\ {id \in free \cap p.slots : worker[id].loaded # {}} # {}
                        THEN OnVramLoaded(life) ELSE life
    /\ UNCHANGED <<config, job, blocks, watched, foreign, blind, evicting>>

\* Each slot loads or fails; the session is told when any of them is warm.
WarmEnd ==
    /\ warm # {}
    /\ \E ok \in SUBSET warm :
         /\ worker' = [id \in Ids |-> IF id \notin warm THEN worker[id]
                ELSE IF id \in ok THEN [Fresh EXCEPT !.loaded = worker[id].holds, !.holds = worker[id].holds]
                     ELSE Fresh]
         /\ residue' = [id \in Ids |-> IF id \in warm \ ok THEN DriverLag ELSE residue[id]]
         /\ life' = IF ok # {} THEN OnVramLoaded(life) ELSE life
    /\ checkout' = [id \in Ids |-> IF id \in warm THEN NoHold ELSE checkout[id]]
    /\ warm' = {}
    /\ UNCHANGED <<config, job, blocks, watched, foreign, blind, evicting, moves>>

-----------------------------------------------------------------------------
(* The machine.                                                                *)

\* Other software takes a card's VRAM, or leaves it.
Foreign(id) ==
    /\ Event("foreign")
    /\ Slot(id).card.strategy = "single"
    /\ foreign' = IF id \in foreign THEN foreign \ {id} ELSE foreign \cup {id}
    /\ UNCHANGED <<config, pool, job, blocks, watched, residue, blind, life, evicting, warm>>

SmiFails ==
    /\ Event("smi")
    /\ blind' = ~blind
    /\ UNCHANGED <<config, pool, job, blocks, watched, foreign, residue, life, evicting, warm>>

\* Telemetry comes in after the supervisor was started on unmeasured cards.
Measure ==
    /\ devices # scene.measured
    /\ devices' = scene.measured
    /\ UNCHANGED <<scene, plan, pool, job, blocks, watched, truth, life, evicting, warm, moves>>

\* The session replaces a supervisor whose slots underreport, when no job runs.
Rebuild ==
    /\ CudaSlotsUnderreport(plan, devices)
    /\ Active = {} /\ warm = {}
    /\ plan' = BuildComputeSlots(devices)
    /\ worker' = [id \in Ids' |-> IF id \in scene.unusable THEN Absent ELSE Fresh]
    /\ checkout' = [id \in Ids' |-> NoHold]
    /\ watch' = NewWatch(Ids') /\ excused' = {}
    /\ residue' = [id \in Ids' |-> 0] /\ foreign' = foreign \cap Ids'
    /\ serverBlocks' = {} /\ localBlocks' = {} /\ burnt' = {} /\ evicting' = {}
    /\ UNCHANGED <<scene, devices, job, blind, life, warm, moves>>

JobStep(j) == \/ Place(j) \/ PlacePinned(j) \/ TakeMisses(j) \/ Take(j) \/ Mark(j)
              \/ Finish(j) \/ Fail(j) \/ TpMisses(j) \/ TpStart(j) \/ TpEnd(j)
              \/ PlaceImage(j) \/ ImageStart(j) \/ ImageEnd(j)

Next == \/ \E j \in Job : Submit(j) \/ JobStep(j)
        \/ \E id \in Ids : AgeReservation(id) \/ EvictSlot(id) \/ Foreign(id)
        \/ Pong \/ Heartbeat \/ Schedule \/ GraceEnds \/ WarmStart \/ WarmEnd
        \/ SmiFails \/ Measure \/ Rebuild

\* Every task of the agent goes on: jobs end, heartbeats come, timers fire; the
\* world may rest. The first two are weak fairness with the enabling condition
\* spelled out (TLC evaluates ENABLED of a placement very slowly): a job can step
\* while it is neither off nor done, and a heartbeat changes nothing when it is quiet.
HeartbeatIsQuiet == /\ WatchSample(watch, RawSamples) = watch
                    /\ \A id \in Ids : residue[id] = 0
                    /\ ~TickEvicts(life, Active # {})
Fairness ==
    /\ \A j \in Job : []<>(j \notin Active) \/ []<><<job'[j] # job[j]>>_vars
    /\ []<>HeartbeatIsQuiet \/ []<><<Heartbeat>>_vars
    /\ WF_vars(\E id \in Ids : EvictSlot(id))
    /\ WF_vars(GraceEnds) /\ WF_vars(WarmEnd)

Spec == Init /\ [][Next]_vars /\ Fairness

-----------------------------------------------------------------------------
(* Properties.                                                                 *)

Codes == {NoCode, "ok", "failed", "crash", "agent_busy", "no_idle_slot", "insufficient_vram"}

\* Types; a slot out of the map is checked out, checked, or never started.
TypeOK ==
    /\ DOMAIN worker = Ids /\ DOMAIN checkout = Ids /\ DOMAIN residue = Ids
    /\ \A id \in Ids :
          /\ worker[id].here => id \notin scene.unusable
          /\ worker[id].loaded \cup worker[id].holds \subseteq DOMAIN Catalog
          /\ checkout[id].job \in Job \cup {NoJob, "warm"} /\ checkout[id].ram \in Nat
          /\ residue[id] \in 0..DriverLag
    /\ \A j \in Job : /\ job[j].pc \in {"off", "new", "claimed", "checked", "running", "done"}
                       /\ job[j].code \in Codes /\ (job[j].code # NoCode) = Ended(j)
                       /\ job[j].tries \in 0..MaxAttempts - 1
    /\ watch.latched \cup evicting \cup warm \cup foreign \subseteq Ids

\* Once a model has failed on a slot for a reason that is the card's, the driver's
\* or the machine's, no job of that model is placed there again until the server
\* says so: note_slot_failure blocks every slot the failure speaks of
\* (host.rs 827-893), and neither a retry, a pin nor a group gets around it.
FailedSlotAvoided ==
    [][\A j \in Job : job[j].pc = "new" /\ job'[j].pc = "claimed"
          => \A id \in job'[j].place.slots : <<Asked(j), id>> \notin burnt]_vars

\* A job that is told agent_busy, and so to wait or hop, is told so only when
\* waiting can help: were every slot of the plan free, empty and unreserved, it
\* would be placed (placement_miss_detail, placement.rs 561-791). Text jobs with a
\* window of their own are left out, and so are those of a machine with Metal: there
\* the code sets the RAM of the catalog's window, or the RAM as if it were VRAM,
\* against what the card would have to hold.
AllFree == [View(Ids) EXCEPT !.live = [id \in Ids |-> Unknown], !.avail = scene.ram,
                             !.warm = {}, !.credit = [id \in Ids |-> 0]]
MissIsTrue ==
    [][\A j \in Job : /\ job[j].pc = "new" /\ ~Pinned(j) /\ job[j].tries = 0
                      /\ job'[j].code = "agent_busy"
                      /\ \/ Model(j).image
                         \/ Request(j).nCtx = 0 /\ \A s \in plan : s.card.strategy # "metal"
          => PickPlacement(AllFree, Request(j)) # NoPlacement]_vars

\* An unpinned job runs on the processor only when no working graphics slot could
\* host it, idle or busy: other software fills it, or the job crashed there
\* (host.rs 1885-1918; a resident copy on the processor is no exception).
ProcessorIsLastResort ==
    [][\A j \in Job : /\ job[j].pc = "new" /\ job'[j].pc = "claimed" /\ ~Pinned(j)
                      /\ <<"cpu", 0>> \in job'[j].place.slots
          => \A s \in plan : Usable(s) /\ HostsByDefault(Model(j), s)
                                      => s.id \in watch.latched \cup job[j].skip]_vars

\* A slot is taken out of the pool only when other software did hold its VRAM, our
\* own weights left it twice in a row, or a job ran there beside the worker in the
\* table: what the driver reports late of one job, one warm plan or one eviction
\* never does it (OccupancyWatch, gpu_occupancy.rs).
OnlyForeignLatches ==
    [][\A id \in Ids : Ids' = Ids /\ id \in watch'.latched \ watch.latched
          => id \in excused']_vars

\* A slot whose VRAM other software has left comes back to the pool.
OccupiedComesBack == []<>(watch.latched \subseteq foreign)

\* Off schedule and idle, the machine ends up without weights in VRAM, whatever
\* warm plan or job was under way when the schedule changed (vram_lifecycle.rs).
OffScheduleGoesCold ==
    []<>(life.earning \/ Active # {} \/ \A id \in Ids : worker[id].holds = {})

\* "Tensor-parallel before offload/CPU when pooled VRAM can fully host"
\* (placement.rs 251): an idle group whose free VRAM together takes the whole
\* model is not passed over for a card that spills layers into system RAM.
PoolServes ==
    [][\A j \in Job :
         LET sibs == Siblings(plan, TpGroupId)
             ids  == SlotIds(sibs)
             card == BuildTpCard(sibs)
         IN  /\ job[j].pc = "new" /\ ~Pinned(j) /\ job'[j].pc \in {"claimed", "done"}
             /\ ~Model(j).image /\ sibs # {}
             /\ ids \subseteq IdleFor(j, FALSE)
             /\ CanHostModel(Model(j), card, scene.ram, scene.headroom, 0)
             /\ \A id \in ids : worker[id].loaded = {} /\ residue[id] = 0
             /\ CanGpuFull(Request(j), Total(ids, FreeVram))
             => /\ job'[j].pc = "claimed"
                /\ \/ job'[j].place.tp
                   \/ CanGpuFull(Request(j), Half(job'[j].place.card.vram))]_vars
=============================================================================
