---------------------------- MODULE WeightsCache ----------------------------
(* The weights cache of one worker process (llm/model_cache.rs) with the     *)
(* load candidates of llm/embedded.rs: cold loads that make room, the shelf  *)
(* of mapped models in RAM, and the cascade a job walks down when a load, a  *)
(* context or a decode fails. A worker serves one request at a time; other   *)
(* software on the card and the driver's deferred frees go on meanwhile.     *)
(*                                                                           *)
(* Memory is in GB. Occupancy measurements only set how long the code waits  *)
(* for the driver, and are left out; so is the vision projector, whose       *)
(* failure is one more error that leaves the resident where it is.           *)
EXTENDS Integers, FiniteSets, Sequences, SequencesExt

CONSTANTS Model,        \* GGUF files
          Gguf(_),      \* their [weight, layers, extra]: extra is full_host_need less the weights
          Cards,        \* "cuda", "vulkan", "metal", "cpu": the card a worker may be given
          Vram,         \* what the card advertises
          LayerBudget,  \* its gpu_layer_budget
          RamBudget,    \* ram_budget_bytes
          Contexts,     \* what the context of a job takes on the card; 0 is a warm-up
          Foreign,      \* what other software may hold
          MaxCalls,     \* requests
          MaxTrouble    \* failed loads and decodes, changes of other software

ASSUME WeightsAssumption ==
    /\ \A m \in Model : /\ Gguf(m).weight \in Nat \ {0}
                        /\ Gguf(m).layers \in Nat \ {0}
                        /\ Gguf(m).extra \in Nat
    /\ Vram \in Nat /\ LayerBudget \in Nat /\ RamBudget \in Nat
    /\ Foreign \subseteq Nat

MaxHops == 4            \* oom_hops

VARIABLES
    card,        \* strategy of the boot config
    gpu,         \* CacheInner::gpu: candidate a resident was loaded from, layers on the card
    shelf,       \* CacheInner::ram, by last use
    unreliable,  \* METAL_GPU_DECODE_UNRELIABLE
    foreign,     \* held by other software
    lag,         \* freed, but still counted by nvidia-smi
    call,        \* the request under way
    calls, trouble

vars == <<card, gpu, shelf, unreliable, foreign, lag, call, calls, trouble>>

Nothing == [m \in {} |-> 0]
NoCall  == [pc |-> "idle", m |-> "none", ctx |-> 0, start |-> 0, fresh |-> FALSE, retried |-> FALSE,
            labels |-> <<>>, hops |-> 0]

Init ==
    /\ card \in Cards
    /\ gpu = Nothing /\ shelf = <<>> /\ unreliable = FALSE
    /\ foreign = 0 /\ lag = 0
    /\ call = NoCall /\ calls = MaxCalls /\ trouble = MaxTrouble

-----------------------------------------------------------------------------
(* Candidates, in order, for what the card seems to have free. *)

IsCpuLabel(l) == l \in {"cpu-only", "cpu-metal"}
Least(a, b) == IF a < b THEN a ELSE b

Share(m, layers) == (Least(layers, Gguf(m).layers) * Gguf(m).weight) \div Gguf(m).layers
Held(g) == FoldSet(LAMBDA m, sum : sum + Share(m, g[m].layers), 0, DOMAIN g)
FreeNow(g) == Vram - foreign - Held(g)
\* live_placement_vram_gb: only CUDA is measured, other cards count as empty.
Available(g, late) ==
    IF card # "cuda" THEN Vram
    ELSE IF FreeNow(g) > late THEN FreeNow(g) - late ELSE 0

\* offload_layers_for_available
OffloadLayers(m, free) ==
    LET room == free - Gguf(m).extra
    IN  IF room < (IF Gguf(m).weight <= 4 THEN 1 ELSE 2) THEN 0
        ELSE Least((room * Gguf(m).layers) \div Gguf(m).weight, LayerBudget)

GpuLabels(m, free) ==
    LET full == free >= Gguf(m).weight + Gguf(m).extra
        layers == OffloadLayers(m, free)
    IN  (IF full THEN <<"gpu-full">> ELSE <<>>)
        \o (IF layers >= 1 THEN <<"gpu-offload">> ELSE <<>>)
        \o (IF layers >= 2 THEN <<"gpu-offload-reduced">> ELSE <<>>)

\* load_param_candidates; empty is its refusal for want of VRAM.
Candidates(m, free, broken) ==
    CASE card = "cpu"   -> <<"cpu-only">>
      [] card = "metal" -> (IF broken THEN <<>> ELSE GpuLabels(m, free)) \o <<"cpu-metal">>
      [] OTHER          -> GpuLabels(m, free)

LayersOf(m, label, free) ==
    CASE label = "gpu-full" -> Gguf(m).layers
      [] label = "gpu-offload" -> OffloadLayers(m, free)
      [] label = "gpu-offload-reduced" -> OffloadLayers(m, free) \div 2
      [] OTHER -> 0

IndexOf(labels, Test(_)) ==
    LET hits == {i \in 1..Len(labels) : Test(labels[i])}
    IN  IF hits = {} THEN Len(labels) ELSE Min(hits) - 1

NextCascadeIndex(labels, failed) ==
    IF failed = "gpu-full" THEN IndexOf(labels, LAMBDA l : l # "gpu-full")
    ELSE IF labels # <<>> /\ labels[1] = "gpu-full" THEN 0
    ELSE Least(IndexOf(labels, LAMBDA l : l = failed) + 1, Len(labels))
NextCpuCascadeIndex(labels) == IndexOf(labels, IsCpuLabel)
Below(labels, failed) == IF failed = "garbage" THEN NextCpuCascadeIndex(labels) ELSE NextCascadeIndex(labels, failed)

-----------------------------------------------------------------------------
(* The RAM shelf. *)

ShelfGb(s) == FoldSeq(LAMBDA m, sum : sum + Gguf(m).weight, 0, s)

\* The longest recent part of the shelf that leaves room for another model.
TrimRamLru(s, add) ==
    LET fits == {k \in 0..Len(s) : ShelfGb(SubSeq(s, k + 1, Len(s))) + add <= RamBudget}
    IN  SubSeq(s, Min(fits \cup {Len(s)}) + 1, Len(s))

\* The shelves try_shelve_cpu may leave: there may not be that much free RAM,
\* and the map may fail.
TryShelve(s, m) ==
    LET t == TrimRamLru(s, Gguf(m).weight)
    IN  {t} \cup IF ShelfGb(t) + Gguf(m).weight <= RamBudget THEN {Append(t, m)} ELSE {}

\* The shelves a cold load of m may leave: those of other models go first, then
\* what was resident is shelved, except on Metal.
Shelved(m) ==
    LET kept == IF m \in ToSet(shelf) THEN <<m>> ELSE <<>>
        out  == DOMAIN gpu \ {m}
    IN  IF out = {} \/ card = "metal" THEN {kept}
        ELSE TryShelve(kept, CHOOSE x \in out : TRUE)

-----------------------------------------------------------------------------
(* A request: make room, load, run, and the cascade. *)

Trouble == trouble > 0 /\ trouble' = trouble - 1
\* What is dropped from a CUDA card is counted as used for a while.
Late(g, kept) == IF card = "cuda" THEN Least(lag + Held(g) - Held(kept), Vram) ELSE 0
Clear == gpu' = Nothing /\ lag' = Late(gpu, Nothing)
End   == call' = NoCall

Label(labels, tier) == IF tier < Len(labels) THEN labels[tier + 1] ELSE "gpu-full"

\* make_gpu_room and the lookup: a resident is used as it is, anything else
\* on the card makes room.
Begin_KeepsOthers(m, ctx) ==        \* (mutant) residents stay while their successor loads
    /\ call.pc = "idle" /\ calls > 0 /\ calls' = calls - 1
    /\ call' = [NoCall EXCEPT !.pc = IF m \in DOMAIN gpu THEN "run" ELSE "load",
                              !.m = m, !.ctx = ctx, !.fresh = TRUE]
    /\ UNCHANGED <<card, gpu, shelf, unreliable, foreign, lag, trouble>>
Begin_KeepsShelf(m, ctx) ==         \* (mutant) the model stays mapped on the shelf as well
    /\ call.pc = "idle" /\ calls > 0 /\ calls' = calls - 1
    /\ IF m \in DOMAIN gpu
       THEN /\ call' = [NoCall EXCEPT !.pc = "run", !.m = m, !.ctx = ctx,
                                      !.labels = Candidates(m, Available(gpu, lag), unreliable)]
            /\ UNCHANGED <<gpu, shelf, lag>>
       ELSE /\ call' = [NoCall EXCEPT !.pc = "load", !.m = m, !.ctx = ctx, !.fresh = TRUE]
            /\ Clear /\ \E s \in Shelved(m) : shelf' = s
    /\ UNCHANGED <<card, unreliable, foreign, trouble>>
Begin(m, ctx) ==
    /\ call.pc = "idle" /\ calls > 0 /\ calls' = calls - 1
    /\ IF m \in DOMAIN gpu
       THEN /\ call' = [NoCall EXCEPT !.pc = "run", !.m = m, !.ctx = ctx,
                                      !.labels = Candidates(m, Available(gpu, lag), unreliable)]
            /\ UNCHANGED <<gpu, shelf, lag>>
       ELSE /\ call' = [NoCall EXCEPT !.pc = "load", !.m = m, !.ctx = ctx, !.fresh = TRUE]
            /\ Clear
            /\ \E s \in Shelved(m) : shelf' = RemoveFirst(s, m)
    /\ UNCHANGED <<card, unreliable, foreign, trouble>>

\* Loaded at index tier of the candidates for `free`. After the first load
\* of a request the labels are read again, beside the new resident.
Loaded(tier, labels, free) ==
    LET entry == [tier |-> tier,
                  layers |-> Least(LayersOf(call.m, labels[tier + 1], free), Gguf(call.m).layers)]
        g == [m \in DOMAIN gpu \cup {call.m} |-> IF m = call.m THEN entry ELSE gpu[m]]
    IN  /\ gpu' = g
        /\ call' = [call EXCEPT !.pc = "run", !.fresh = FALSE,
                               !.labels = IF call.fresh THEN Candidates(call.m, Available(g, lag), unreliable) ELSE @]
        /\ UNCHANGED lag

\* The first load of a cascade clears the cache and tries once more; any
\* other failure ends the request.
LoadRefused ==
    IF call.start = 0 /\ ~call.retried
    THEN Clear /\ call' = [call EXCEPT !.retried = TRUE]
    ELSE End /\ UNCHANGED <<gpu, lag>>

\* load_model_for_pool_starting_at: one GPU tier, then only a CPU tier.
Load ==
    LET free   == Available(gpu, lag)
        labels == Candidates(call.m, free, unreliable)
        first  == call.start + 1
        Fits(i) == Share(call.m, LayersOf(call.m, labels[i], free)) <= FreeNow(gpu)
        cpu    == NextCpuCascadeIndex(labels)
    IN  /\ call.pc = "load"
        /\ IF first > Len(labels)
           THEN LoadRefused /\ UNCHANGED trouble
           ELSE \/ Fits(first) /\ Loaded(call.start, labels, free) /\ UNCHANGED trouble
                \/ /\ IF Fits(first) THEN Trouble ELSE UNCHANGED trouble
                   /\ IF cpu > call.start /\ cpu < Len(labels) THEN Loaded(cpu, labels, free) ELSE LoadRefused
        /\ UNCHANGED <<card, shelf, unreliable, foreign, calls>>

\* llama.cpp may abort() instead of returning an error: the worker dies and is
\* started again by its supervisor.
CudaAborts ==
    /\ call.pc = "load" /\ card = "cuda" /\ Trouble
    /\ gpu' = Nothing /\ shelf' = <<>> /\ lag' = 0 /\ End
    /\ UNCHANGED <<card, unreliable, foreign, calls>>

FitsContext == gpu[call.m].layers = 0 \/ call.ctx <= FreeNow(gpu)

Succeed ==
    /\ call.pc = "run" /\ FitsContext
    /\ End
    /\ UNCHANGED <<card, gpu, shelf, unreliable, foreign, lag, calls, trouble>>

\* A prompt too long, a tokenizer that refuses: the resident stays.
OtherError ==
    /\ call.pc = "run" /\ Trouble
    /\ End
    /\ UNCHANGED <<card, gpu, shelf, unreliable, foreign, lag, calls>>

\* The next load of the cascade, chosen on what the emptied card seems to hold.
Descend_Endless(failed, broken) ==    \* (mutant) the cascade has no hop limit
    LET labels == Candidates(call.m, Available(Nothing, Late(gpu, Nothing)), broken)
        start  == Below(labels, failed)
    IN  /\ Clear
        /\ IF start >= Len(labels) THEN End
           ELSE call' = [call EXCEPT !.pc = "load", !.start = start, !.retried = FALSE, !.labels = labels]
Descend(failed, broken) ==
    LET labels == Candidates(call.m, Available(Nothing, Late(gpu, Nothing)), broken)
        start  == Below(labels, failed)
    IN  /\ Clear
        /\ IF call.hops = MaxHops \/ start >= Len(labels) THEN End
           ELSE call' = [call EXCEPT !.pc = "load", !.hops = @ + 1, !.start = start, !.retried = FALSE,
                                     !.labels = labels]

\* The context does not fit, or memory ends later.
OutOfMemory ==
    /\ call.pc = "run"
    /\ IF FitsContext THEN Trouble ELSE UNCHANGED trouble
    /\ Descend(Label(call.labels, gpu[call.m].tier), unreliable)
    /\ UNCHANGED <<card, shelf, unreliable, foreign, calls>>

\* Garbage logits or a failed decode: no further GPU tier, and on Metal none
\* for the life of the process.
Garbage ==
    /\ call.pc = "run" /\ Trouble
    /\ unreliable' = (unreliable \/ card = "metal")
    /\ Descend("garbage", unreliable')
    /\ UNCHANGED <<card, shelf, foreign, calls>>

-----------------------------------------------------------------------------
(* Between requests, and beside them. *)

Evict ==
    /\ call.pc = "idle" /\ calls > 0 /\ gpu # Nothing
    /\ Clear /\ shelf' = <<>>
    /\ UNCHANGED <<card, unreliable, foreign, call, calls, trouble>>

\* Other software grows or shrinks; it cannot take what is held.
ForeignChange ==
    /\ Trouble
    /\ \E f \in Foreign \ {foreign} : f + Held(gpu) <= Vram /\ foreign' = f
    /\ UNCHANGED <<card, gpu, shelf, unreliable, lag, call, calls>>

Reclaim ==
    /\ lag > 0 /\ lag' = 0
    /\ UNCHANGED <<card, gpu, shelf, unreliable, foreign, call, calls, trouble>>

CallStep == Load \/ CudaAborts \/ Succeed \/ OtherError \/ OutOfMemory \/ Garbage
Next == (\E m \in Model, ctx \in Contexts : Begin(m, ctx)) \/ CallStep \/ Evict \/ ForeignChange \/ Reclaim

\* The thread that serves a request runs; nothing else is assumed.
Spec == Init /\ [][Next]_vars /\ WF_vars(CallStep)

-----------------------------------------------------------------------------
(* Properties *)

\* One model is resident at most, what is resident fits the card beside other
\* software, and a request in its cascade has hops left (with_loaded_weights).
TypeOK ==
    /\ card \in Cards /\ unreliable \in BOOLEAN
    /\ Cardinality(DOMAIN gpu) <= 1
    /\ \A m \in DOMAIN gpu : gpu[m].tier \in 0..3 /\ gpu[m].layers \in 0..Gguf(m).layers
    /\ FreeNow(gpu) >= 0 /\ foreign \in Foreign \cup {0}
    /\ lag \in 0..Vram
    /\ call.pc \in {"idle", "load", "run"} /\ call.start \in 0..3 /\ call.hops \in 0..MaxHops
    /\ call.pc = "run" => DOMAIN gpu = {call.m}

\* A request ends, although a step down the cascade may lead back up: a full
\* load is tried again once the card has been emptied (next_cascade_index).
EveryCallEnds == (call.pc # "idle") ~> (call.pc = "idle")

\* What is on the shelf is not also resident, is within the RAM budget, and
\* is never there on Metal, where it would be paid twice (try_shelve_cpu).
ShelfIsSpare ==
    /\ ToSet(shelf) \cap DOMAIN gpu = {}
    /\ call.pc # "idle" => call.m \notin ToSet(shelf)
    /\ ShelfGb(shelf) <= RamBudget
    /\ card = "metal" => shelf = <<>>
=============================================================================
