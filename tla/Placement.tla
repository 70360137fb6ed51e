------------------------------ MODULE Placement ------------------------------
(* Where a job runs (supervisor/placement.rs). Every operator reads a view v   *)
(* of the machine, taken under the locks of Supervisor::invoke: plan, idle     *)
(* (slot ids), ram and headroom in gigabytes, cores, avail (system RAM that no *)
(* sibling has reserved), live (free VRAM per slot in half gigabytes, Unknown  *)
(* without telemetry), warm (idle slots that hold our own weights), credit     *)
(* (system RAM that evicting them frees); and a request r: model, vision, nCtx.*)
EXTENDS Capacity, ComputePool

Unknown == -1
NoPlacement == <<>>

\* A placement: the slots to claim, the card to load on, one worker for them all?
On(s) == [slots |-> {s.id}, card |-> s.card, tp |-> FALSE]
OnGroup(sibs) == [slots |-> SlotIds(sibs), card |-> BuildTpCard(sibs), tp |-> TRUE]

\* The slots of the plan that pass a test, and the first by an order (NoPlacement if none).
Those(v, Test(_)) == {s \in v.plan : Test(s)}
FirstBy(slots, Before(_, _)) ==
    LET first == {s \in slots : \A t \in slots \ {s} : Before(s, t)}
    IN  IF first = {} THEN NoPlacement ELSE On(CHOOSE s \in first : TRUE)

Accelerator(s) == s.kind # "cpu"
IsIdle(v, s) == s.id \in v.idle
Measured(s) == ~SoftNameplate(s.card)
Hosts(v, r, s) == CanHostModel(r.model, s.card, v.ram, v.headroom, r.nCtx)
Sees(r, card) == r.vision => CanServeVisionOnCard(r.model, card)
MinVramOf(r) == IF r.vision THEN ImageJobMinVram(r.model) ELSE HostingMinVram(r.model)

\* Our own idle weights are evicted before the load, so they do not count.
SlotAvailable(v, s) ==
    CASE s.id \in v.warm -> Half(s.card.vram)
      [] s.id \notin v.warm /\ v.live[s.id] # Unknown -> v.live[s.id]
      [] OTHER -> IF Measured(s) THEN Half(s.card.vram) ELSE 0

\* A group has as much as its tightest member, not as the members together.
TpAvailable(v, sibs) ==
    LET known == {v.live[id] : id \in SlotIds(sibs)} \ {Unknown}
    IN  IF known = {} THEN Half(BuildTpCard(sibs).vram)
        ELSE CHOOSE least \in known : \A other \in known : least <= other

AcceleratorLiveCanPlace(v, m, s) ==
    Accelerator(s) /\ SlotAvailable(v, s) >= OccupancyMinVram(m)

CanGpuFull(r, free) == VramCanGpuFull(free, r.model, MinVramOf(r), r.vision, r.nCtx)

RamNeed(v, r, s) == PlacementSysRamNeed(r.model, s.card, r.vision, v.headroom)
RamFree(v, s) == v.avail + v.credit[s.id]

\* A card with a size of its own could host the model, busy or not.
DiscreteNameplateHosts(v, r) ==
    \E s \in v.plan : /\ Accelerator(s) /\ s.kind # "integrated" /\ Measured(s)
                      /\ Hosts(v, r, s) /\ Sees(r, s.card)

\* An integrated GPU takes nothing that a discrete card could host.
MayPlace(v, r, s) ==
    /\ IsIdle(v, s) /\ Accelerator(s) /\ Measured(s)
    /\ ~(s.kind = "integrated" /\ DiscreteNameplateHosts(v, r))

Rank(s) == CASE s.card.strategy = "single" -> 0
             [] s.card.strategy = "metal" -> 1
             [] OTHER -> IF IsAmdDiscreteCard(s.card) THEN 2 ELSE 3

\* The orders end in the number of the slot: two slots of one priority are of one kind.
Sooner(s, t) == \/ s.priority < t.priority
                \/ s.priority = t.priority /\ s.id[2] < t.id[2]
Smallest(s, t) == \/ s.card.vram < t.card.vram
                  \/ s.card.vram = t.card.vram /\ Sooner(s, t)
Largest(s, t)  == \/ s.card.vram > t.card.vram
                  \/ s.card.vram = t.card.vram /\ Sooner(s, t)
BestImage(s, t) == \/ Rank(s) < Rank(t)
                   \/ Rank(s) = Rank(t) /\ Smallest(s, t)

ImageSlot(m, s) == /\ Accelerator(s) /\ ImageCardEligible(s.card) /\ Measured(s)
                   /\ HostingMinVram(m) = 0 \/ s.card.vram >= HostingMinVram(m)

PickImagePlacement(v, r) ==
    FirstBy(Those(v, LAMBDA s : IsIdle(v, s) /\ ImageSlot(r.model, s)), BestImage)

-----------------------------------------------------------------------------
(* pick_placement_with_cpu: one card that fits all, the group, the largest     *)
(* card that takes most of the weights, the processor.                         *)

FullFit(v, r) ==
    FirstBy(Those(v, LAMBDA s : /\ MayPlace(v, r, s)
                                /\ CanGpuFull(r, SlotAvailable(v, s))
                                /\ Hosts(v, r, s) /\ Sees(r, s.card)), Smallest)

TensorParallel(v, r) ==
    LET sibs == Siblings(v.plan, TpGroupId)
        card == BuildTpCard(sibs)
    IN  IF /\ sibs # {} /\ SlotIds(sibs) \subseteq v.idle
           /\ Sees(r, card)
           /\ CanGpuFull(r, TpAvailable(v, sibs))
           /\ CanHostModel(r.model, card, v.ram, v.headroom, r.nCtx)
        THEN OnGroup(sibs) ELSE NoPlacement

Offload(v, r) ==
    IF r.vision THEN NoPlacement
    ELSE FirstBy(Those(v, LAMBDA s : /\ MayPlace(v, r, s)
                                     /\ AcceleratorLiveCanPlace(v, r.model, s)
                                     /\ Hosts(v, r, s)
                                     /\ RamNeed(v, r, s) <= RamFree(v, s)), Largest)

\* A GPU-class model stays off the processor of a machine with any graphics
\* card; a small one goes there only when no card, idle or not, could host it.
OnProcessor(v, r) ==
    LET cpu      == Those(v, LAMBDA s : /\ IsIdle(v, s) /\ ~Accelerator(s) /\ Hosts(v, r, s)
                                       /\ RamNeed(v, r, s) <= RamFree(v, s))
        hasAccel == \E s \in v.plan : Accelerator(s)
        gpuClass == HostingMinVram(r.model) > 0 \/ r.model.weight > 4
    IN  IF /\ ~r.vision
           /\ ~(hasAccel /\ gpuClass)
           /\ ~\E s \in v.plan : Accelerator(s) /\ Measured(s) /\ Hosts(v, r, s)
           /\ CpuSlotMayServe(r.model, v.ram, v.headroom, v.cores)
        THEN FirstBy(cpu, Sooner) ELSE NoPlacement

Else(p, q) == IF p # NoPlacement THEN p ELSE q

PickPlacement(v, r) ==
    IF r.model.image THEN PickImagePlacement(v, r)
    ELSE Else(FullFit(v, r), Else(TensorParallel(v, r), Else(Offload(v, r), OnProcessor(v, r))))

-----------------------------------------------------------------------------
(* A slot that holds the model already, and a slot the router has chosen.      *)

ResidentSlotCanServe(v, r, s) ==
    IF Accelerator(s) THEN Sees(r, s.card) /\ Hosts(v, r, s)
    ELSE CpuSlotMayServe(r.model, v.ram, v.headroom, v.cores)

PickResident(v, r, resident) ==
    FirstBy(Those(v, LAMBDA s : /\ s.id \in resident /\ IsIdle(v, s)
                                /\ ResidentSlotCanServe(v, r, s)),
            LAMBDA s, t : \/ Accelerator(s) /\ ~Accelerator(t)
                          \/ (Accelerator(s) = Accelerator(t)) /\ Sooner(s, t))

\* A pin grows to its group when the card alone cannot hold the model and the group can.
PlacementForRequired(plan, r, id) ==
    LET s    == SlotOf(plan, id)
        sibs == Siblings(plan, s.group)
        Full(card) == CanGpuFull(r, Half(card.vram)) /\ Sees(r, card)
    IN  IF ~r.model.image /\ Cardinality(sibs) > 1 /\ ~Full(s.card) /\ Full(BuildTpCard(sibs))
        THEN OnGroup(sibs) ELSE On(s)

-----------------------------------------------------------------------------
(* placement_miss_detail: the code the router gets for a miss. "agent_busy"    *)
(* asks it to wait or hop, "insufficient_vram" blames the machine.             *)

ImageMiss(v, r) ==
    LET idleAccel == Those(v, LAMBDA s : IsIdle(v, s) /\ Accelerator(s))
        able      == Those(v, LAMBDA s : ImageSlot(r.model, s))
    IN  CASE idleAccel # {} /\ \A s \in idleAccel : ~Measured(s) -> "insufficient_vram"
          [] OTHER -> CASE able = {} -> "insufficient_vram"
                        [] SlotIds(able) \cap v.idle # {} -> "no_idle_slot"
                        [] OTHER -> "agent_busy"

\* VRAM would do, but each idle card that has it lacks the system RAM.
LacksSysRam(v, r) ==
    \E s \in v.plan : /\ IsIdle(v, s) /\ AcceleratorLiveCanPlace(v, r.model, s)
                      /\ RamNeed(v, r, s) > RamFree(v, s)

TextMiss_Busy(v, r) ==    \* (mutant) every miss is put down to busy cards
    "agent_busy"
TextMiss(v, r) ==
    LET idleAccel == Those(v, LAMBDA s : IsIdle(v, s) /\ Accelerator(s))
        measured  == {s \in idleAccel : Measured(s)}
        roomy     == \E s \in measured : SlotAvailable(v, s) >= OccupancyMinVram(r.model)
    IN  CASE idleAccel # {} /\ (r.vision \/ measured = {} \/ (roomy /\ LacksSysRam(v, r)))
               -> "insufficient_vram"
          [] OTHER -> IF ~r.vision /\ DiscreteNameplateHosts(v, r)
                      THEN "agent_busy" ELSE "insufficient_vram"

PlacementMiss(v, r) ==
    CASE v.idle = {} -> "no_idle_slot"
      [] OTHER -> IF r.model.image THEN ImageMiss(v, r) ELSE TextMiss(v, r)
=============================================================================
