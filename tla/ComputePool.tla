----------------------------- MODULE ComputePool -----------------------------
(* The compute plan: enabled devices partitioned into slots that one worker    *)
(* each serves, and the tensor-parallel group (compute_pool.rs).               *)
(*                                                                             *)
(* A device is a record: kind ("discrete", "integrated", "metal", "cpu"),      *)
(* vendor ("nvidia", "amd", "arc", "intel", "apple", "none": what the prefixes *)
(* of its id and the words of its name tell), index (the N of nvidia:N), sku   *)
(* (its name without the brand), vram (0: never measured), enabled. A card is  *)
(* what a worker loads a model on: strategy, vram, kind, family, layers (the   *)
(* budget of an offload fallback). A plan is a set of slots; its order is that *)
(* of Largest within a kind, and of priority between kinds.                    *)
EXTENDS Integers, Sequences, FiniteSets, FiniteSetsExt

CONSTANTS VulkanRuntime, MetalRuntime   \* features of the build

ASSUME RuntimeAssumption == {VulkanRuntime, MetalRuntime} \subseteq BOOLEAN

SoftDiscreteVram == 1
TpGroupId == "cuda-tp-0"
NoGroup == "none"

Vendors == {"nvidia", "amd", "arc", "intel", "apple", "none"}
DeviceKinds == {"discrete", "integrated", "metal", "cpu"}
ComputeDevice == [kind : DeviceKinds, vendor : Vendors, index : Nat, sku : STRING,
                  vram : Nat, enabled : BOOLEAN]
VirtualCard == [strategy : {"single", "tp", "metal", "vulkan", "cpu"}, vram : Nat,
                kind : DeviceKinds, family : Vendors, layers : Nat]

\* A GPU whose size nothing reported counts 1 GB, an integrated one 2 GB.
EffectiveVram(d) ==
    CASE d.vram > 0 -> d.vram
      [] d.vram = 0 /\ d.kind = "integrated" -> 2
      [] d.vram = 0 /\ d.kind \in {"discrete", "metal"} -> SoftDiscreteVram
      [] OTHER -> 0

IsMetal(d)  == d.kind = "metal"
IsCuda(d)   == d.kind = "discrete" /\ d.vendor = "nvidia"
IsVulkan(d) == /\ ~IsMetal(d) /\ d.kind # "cpu" /\ d.vendor # "nvidia"
               /\ d.kind = "integrated" \/ (d.kind = "discrete" /\ d.vendor \in {"amd", "arc"})

\* Same model, sizes within 1 GB: the cards may share one model.
Homogeneous(cuda) ==
    /\ Cardinality(cuda) >= 2
    /\ \A d, e \in cuda : /\ d.sku = e.sku
                          /\ EffectiveVram(d) - EffectiveVram(e) <= 1

\* Layers of 300 MiB in what 768 MiB of headroom leave, rounded.
OffloadLayerBudget(gb) ==
    LET usable == gb * 1024 - 768
    IN  IF usable < 300 THEN 0 ELSE (2 * usable + 300) \div 600

CardForDevice(d, strategy, vram) ==
    [strategy |-> strategy, vram |-> vram, kind |-> d.kind, family |-> d.vendor,
     layers |-> IF strategy = "cpu" THEN 0 ELSE OffloadLayerBudget(vram)]

SlotFor(d, name, n, kind, priority, strategy, vram, group) ==
    [id |-> <<name, n>>, kind |-> kind, priority |-> priority,
     card |-> CardForDevice(d, strategy, vram), device |-> d, group |-> group]

AtLeastOne(n) == IF n = 0 THEN 1 ELSE n

CudaSlot(d, group) == SlotFor(d, "cuda", d.index, "discrete_cuda", 10, "single", EffectiveVram(d), group)
MetalSlot(d, n)  == SlotFor(d, "metal", n, "metal", 15, "metal", AtLeastOne(EffectiveVram(d)), NoGroup)
VulkanSlot(d, n) == SlotFor(d, "vulkan", n, "discrete_vulkan", 20, "vulkan", AtLeastOne(EffectiveVram(d)), NoGroup)
IgpuSlot(d, n)   == SlotFor(d, "igpu", n, "integrated", 40, "vulkan", AtLeastOne(EffectiveVram(d)), NoGroup)

CpuRow == [kind |-> "cpu", vendor |-> "none", index |-> 0, sku |-> "cpu", vram |-> 0, enabled |-> TRUE]
CpuSlot == SlotFor(CpuRow, "cpu", 0, "cpu", 90, "cpu", 0, NoGroup)

\* The slots of a machine, none when nothing is enabled; those of a kind are
\* numbered in the order of the devices, CUDA slots by the index of the card. A
\* processor that the owner has switched off, or that shares its memory with a
\* Metal GPU, is no slot.
BuildComputeSlots(devices) ==
    LET Rows(Test(_)) == {i \in DOMAIN devices : devices[i].enabled /\ Test(devices[i])}
        Number(rows, i) == Cardinality({k \in rows : k < i})
        cuda   == {devices[i] : i \in Rows(IsCuda)}
        metal  == IF MetalRuntime THEN Rows(IsMetal) ELSE {}
        vulkan == IF VulkanRuntime THEN Rows(LAMBDA d : d.kind # "integrated" /\ IsVulkan(d)) ELSE {}
        igpu   == IF VulkanRuntime THEN Rows(LAMBDA d : d.kind = "integrated") ELSE {}
        group  == IF Homogeneous(cuda) THEN TpGroupId ELSE NoGroup
        noCpu  == metal # {} \/ \E i \in DOMAIN devices : devices[i].kind = "cpu" /\ ~devices[i].enabled
    IN  IF \A i \in DOMAIN devices : ~devices[i].enabled THEN {}
        ELSE {CudaSlot(d, group) : d \in cuda}
             \cup {MetalSlot(devices[i], Number(metal, i)) : i \in metal}
             \cup {VulkanSlot(devices[i], Number(vulkan, i)) : i \in vulkan}
             \cup {IgpuSlot(devices[i], Number(igpu, i)) : i \in igpu}
             \cup (IF noCpu THEN {} ELSE {CpuSlot})

SlotIds(slots) == {s.id : s \in slots}
SlotOf(slots, id) == CHOOSE s \in slots : s.id = id
Siblings(plan, group) == {s \in plan : s.group = group /\ group # NoGroup}

\* One card over the devices of a group.
BuildTpCard(siblings) ==
    LET vrams  == {EffectiveVram(s.device) : s \in siblings}
        widest == IF vrams = {} THEN 0 ELSE CHOOSE n \in vrams : \A k \in vrams : k <= n
    IN  [strategy |-> "tp", kind |-> "discrete", family |-> "nvidia",
         vram |-> FoldSet(LAMBDA s, sum : sum + EffectiveVram(s.device), 0, siblings),
         layers |-> OffloadLayerBudget(widest)]

\* A card of at most 1 GB is one that nvidia-smi has not measured yet.
SoftNameplate(card) == card.vram <= SoftDiscreteVram /\ card.strategy \in {"single", "tp"}

\* Telemetry shows much more than the running plan: the plan was built too early.
CudaSlotsUnderreport(plan, devices) ==
    \E i \in DOMAIN devices, s \in plan :
        LET d == devices[i] IN
        /\ d.enabled /\ IsCuda(d) /\ d.vram >= 4
        /\ s.id = <<"cuda", d.index>>
        /\ s.card.vram > 0 /\ s.card.vram + 2 < d.vram
=============================================================================
