------------------------------ MODULE Capacity ------------------------------
(* What a model needs of a card and of the system RAM (models/capacity.rs,     *)
(* models/vram_plan.rs). Measured quantities (weights, KV cache, free VRAM:    *)
(* f64 in the code) are counted in half gigabytes, nameplates and RAM (u32 in  *)
(* the code) in gigabytes; n_ctx is counted in windows of 512 tokens, the      *)
(* least the agent allocates. The slop of 0.005 GB is the rounding of floats,  *)
(* the floor of 0.05 GB means "none": both vanish in whole numbers.            *)
(*                                                                             *)
(* A model of the catalog is a record: image (Diffusers), vision (takes        *)
(* images), weight, mmproj, minVram, minVramVision, minRam in half gigabytes,  *)
(* ctx (its window), kvUnit (KV cache per window unit), extras (scratch and    *)
(* CUDA context), and fullVram, weightsVram, kvCatalog: the server's own sums, *)
(* 0 in a row that predates them.                                              *)
EXTENDS Integers

Larger(a, b) == IF a >= b THEN a ELSE b
Smaller(a, b) == IF a <= b THEN a ELSE b

CatalogModel == [image : BOOLEAN, vision : BOOLEAN, weight : Nat, mmproj : Nat, minVram : Nat,
                 minVramVision : Nat, minRam : Nat, ctx : Nat, kvUnit : Nat, extras : Nat,
                 fullVram : Nat, weightsVram : Nat, kvCatalog : Nat]

\* f64 gigabytes rounded up to u32, and a u32 as f64.
GbCeil(half) == IF half <= 0 THEN 0 ELSE (half + 1) \div 2
Half(gb) == 2 * gb

DefaultCpuRamHeadroom == 2
WarmKvOffloadRamCap == 3

-----------------------------------------------------------------------------
(* Parts of a job: window, KV cache, weights on the card.                      *)

HostingMinVram(m) == GbCeil(m.minVram)

Mmproj(m, vision) == IF vision THEN m.mmproj ELSE 0

\* A job or lease window (0: none) narrows the catalog's window, never widens it.
EffectiveJobNCtx(m, nCtx) ==
    IF nCtx > 0 THEN Larger(Smaller(nCtx, m.ctx), 1) ELSE m.ctx

KvGb(m, nCtx) == m.kvUnit * nCtx

GpuWeightsNeed(m, vision, nCtx) ==
    IF ~vision /\ nCtx = 0 /\ m.weightsVram > 0
    THEN m.weightsVram
    ELSE m.weight + m.extras + Mmproj(m, vision)

JobKv(m, vision, nCtx) ==
    IF ~vision /\ nCtx = 0 /\ m.kvCatalog > 0
    THEN m.kvCatalog
    ELSE KvGb(m, EffectiveJobNCtx(m, nCtx))

ImageJobMinVram(m) ==
    CASE ~m.vision -> HostingMinVram(m)
      [] m.vision /\ m.minVramVision > 0 -> GbCeil(m.minVramVision)
      [] OTHER -> GbCeil(m.weight + m.mmproj + 1)

\* Weights, KV and scratch on one card; the catalog's floor is for its own window.
GpuFullHostNeed(m, vision, nCtx) ==
    IF ~vision /\ nCtx = 0 /\ m.fullVram > 0
    THEN Larger(m.fullVram, Half(HostingMinVram(m)))
    ELSE Larger(m.weight + KvGb(m, EffectiveJobNCtx(m, nCtx)) + m.extras + Mmproj(m, vision),
                CASE vision -> Half(ImageJobMinVram(m))
                  [] ~vision /\ nCtx = 0 -> Half(HostingMinVram(m))
                  [] OTHER -> 0)

KvFitsOnGpu(free, m, vision, nCtx) == free >= GpuFullHostNeed(m, vision, nCtx)

VramCanGpuFull(free, m, minVram, vision, nCtx) ==
    /\ free >= Half(minVram)
    /\ KvFitsOnGpu(free, m, vision, nCtx)

\* Live free VRAM under which no job of the model can be placed: layer offload
\* keeps 65 of 100 parts of the weights on the card. The code compares floats;
\* OffloadFloor rounds the product up, which decides the same for whole numbers.
OffloadFloor(weights) == (65 * weights + 99) \div 100
OccupancyMinVram(m) ==
    IF m.image \/ m.weight <= 0
    THEN Larger(Half(HostingMinVram(m)), 2)
    ELSE Larger(OffloadFloor(m.weight), 2)

-----------------------------------------------------------------------------
(* System RAM.                                                                 *)

KvOffloadRam(m, vision) == Larger(GbCeil(JobKv(m, vision, 0)), 1)

WarmKvOffloadRamNeed(m, vision) == Smaller(KvOffloadRam(m, vision), WarmKvOffloadRamCap)

KvRamNeed(m, vision, headroom) ==
    Larger(Larger(GbCeil(JobKv(m, vision, 0)) + headroom, GbCeil(m.minRam)), 1)

WeightPlusKvRamNeed(m, vision, headroom) ==
    Larger(GbCeil(m.weight + JobKv(m, vision, 0)) + headroom, GbCeil(m.minRam))

CpuFallbackFits(m, ram, headroom) ==
    ~m.image /\ m.weight > 0 /\ ram >= WeightPlusKvRamNeed(m, FALSE, headroom)

\* 0.75 GB of weights for each logical core; with no core count, 6 GB.
CpuSlotCapable(m, cores) ==
    /\ ~m.image /\ m.weight > 0
    /\ IF cores = 0 THEN m.weight <= 12 ELSE 2 * m.weight <= 3 * cores

CpuSlotMayServe(m, ram, headroom, cores) ==
    CpuSlotCapable(m, cores) /\ CpuFallbackFits(m, ram, headroom)

\* RAM a placement takes beyond the card: spilled layers, KV in RAM, or it all.
PlacementSysRamNeed(m, card, vision, headroom) ==
    LET vram    == Half(card.vram)
        spilled == Larger(GpuWeightsNeed(m, vision, 0) - vram, 0)
        kvRam   == IF KvFitsOnGpu(vram, m, vision, 0) THEN 0 ELSE JobKv(m, vision, 0)
    IN  CASE m.image \/ card.strategy = "metal" -> 0
          [] ~m.image /\ card.strategy = "cpu" -> WeightPlusKvRamNeed(m, vision, headroom)
          [] OTHER -> IF spilled + kvRam = 0 THEN 0 ELSE GbCeil(spilled + kvRam) + headroom

-----------------------------------------------------------------------------
(* May this card run the model at all, and where does its KV cache go?         *)

CanServeVisionOnCard(m, card) ==
    \/ ImageJobMinVram(m) = 0
    \/ card.vram >= ImageJobMinVram(m) /\ card.strategy # "cpu"

\* Diffusers runs on a CUDA card, an Apple card, a discrete AMD card or an Arc.
IsAmdDiscreteCard(card) == card.family = "amd" /\ card.kind = "discrete"
ImageCardEligible(card) ==
    \/ card.strategy \in {"single", "metal"}
    \/ card.strategy = "vulkan" /\ (IsAmdDiscreteCard(card) \/ card.family = "arc")

CanHostImageModel(m, card) ==
    ImageCardEligible(card) /\ (HostingMinVram(m) = 0 \/ card.vram >= HostingMinVram(m))

LayerOffloadFits(m, vram, weights, vision, ram, headroom) ==
    /\ vram > 0 /\ weights > 0
    /\ vram >= OffloadFloor(IF m.weight > 0 THEN m.weight ELSE weights)
    /\ ram >= Larger(GbCeil(Larger(weights - vram, 0) + JobKv(m, vision, 0)) + headroom,
                     GbCeil(m.minRam))

CanHostModel(m, card, ram, headroom, nCtx) ==
    LET vram    == Half(card.vram)
        weights == GpuWeightsNeed(m, FALSE, nCtx)
    IN  CASE m.image -> CanHostImageModel(m, card)
          [] ~m.image /\ card.strategy = "metal" ->
                Half(Larger(card.vram, ram)) >=
                    Larger(GpuFullHostNeed(m, FALSE, nCtx), Half(GbCeil(m.minRam)))
          [] OTHER ->
                \/ KvFitsOnGpu(vram, m, FALSE, nCtx) /\ ram >= GbCeil(m.minRam)
                \/ /\ card.strategy # "cpu"
                   /\ IF vram >= weights
                      THEN ram >= KvRamNeed(m, FALSE, headroom)
                      ELSE LayerOffloadFits(m, vram, weights, FALSE, ram, headroom)
                \/ card.strategy = "cpu" /\ ram >= WeightPlusKvRamNeed(m, FALSE, headroom)

\* llama_context_plan_for_n_ctx: is the KV cache kept on the card?
OffloadKqv(m, card, vision, nCtx) ==
    LET left == Half(card.vram) - (m.weight + m.extras + Mmproj(m, vision))
    IN  CASE card.strategy = "cpu" -> FALSE
          [] card.strategy = "metal" -> TRUE
          [] OTHER -> left > 0 /\ left >= KvGb(m, EffectiveJobNCtx(m, nCtx))
=============================================================================
