----------------------------- MODULE MCDispatch -----------------------------
(* Machines, models and requests on which TLC checks Dispatch. Every machine   *)
(* gives the jobs a and b one request each.                                    *)
EXTENDS Dispatch

CONSTANTS a, b

Gpu(i, size) == [kind |-> "discrete", vendor |-> "nvidia", index |-> i, sku |-> "5050",
                 vram |-> size, enabled |-> TRUE]
ArcGpu == [kind |-> "discrete", vendor |-> "arc", index |-> 0, sku |-> "a770", vram |-> 6, enabled |-> TRUE]
CpuOff == [CpuRow EXCEPT !.enabled = FALSE]
Cuda0 == <<"cuda", 0>>
Cuda1 == <<"cuda", 1>>
Cpu0 == <<"cpu", 0>>

LOCAL Text(weight, minVram, kv) ==
    [image |-> FALSE, vision |-> FALSE, weight |-> weight, mmproj |-> 0, minVram |-> minVram,
     minVramVision |-> 0, minRam |-> 2, ctx |-> 2, kvUnit |-> kv, extras |-> 1,
     fullVram |-> 0, weightsVram |-> 0, kvCatalog |-> 0]

Tiny  == Text(3, 0, 1)       \* 1.5 GB: the processor may take it
Small == Text(8, 8, 1)       \* 4 GB: one card
Large == Text(20, 16, 2)     \* 10 GB: two cards, or one that spills
Seer  == [Text(6, 6, 1) EXCEPT !.vision = TRUE, !.mmproj = 2, !.minVramVision = 10]
Spill == Text(18, 8, 1)      \* 9 GB: any card of 6 GB, with some layers in system RAM
Rowed == [Text(14, 8, 2) EXCEPT !.fullVram = 16]   \* by the server's sums it fits 8 GB
Huge == Text(80, 40, 2)      \* 40 GB: no card here
Paint == [Text(0, 10, 0) EXCEPT !.image = TRUE]

Models == [tiny |-> Tiny, small |-> Small, large |-> Large, seer |-> Seer, paint |-> Paint,
           spill |-> Spill, rowed |-> Rowed, huge |-> Huge]

Ask(m, pin) == [model |-> m, vision |-> FALSE, nCtx |-> 0, pin |-> pin]
AskImage(m) == [Ask(m, AnySlot) EXCEPT !.vision = TRUE]
Both(ra, rb) == [j \in Job |-> IF j = a THEN ra ELSE rb]

Machine(ds, request) ==
    [devices |-> ds, measured |-> ds, unusable |-> {}, ram |-> 16, cores |-> 8, headroom |-> 2,
     osUsed |-> 4, request |-> request, advertised |-> {request[j].model : j \in Job},
     faults |-> {}, foreign |-> 0, pongs |-> {{}}, warmPlans |-> {}, events |-> {}, moves |-> 0]

Twin == <<Gpu(0, 8), Gpu(1, 8)>>

\* Two equal cards: a model for one of them and a model for the pair, which fail.
Pair == [Machine(Twin, Both(Ask("large", AnySlot), Ask("small", AnySlot))) EXCEPT
            !.faults = {"resource", "crash"}, !.moves = 1, !.events = {"smi"}]
\* The same cards, nvidia-smi reporting nothing from time to time, and a pin.
Pinning == [Machine(Twin, Both(Ask("large", Cuda0), Ask("small", AnySlot))) EXCEPT
            !.faults = {"nvidia"}, !.moves = 2, !.events = {"pong", "smi"}, !.pongs = {{}, {<<"small", Cuda1>>}}]
\* A card, an Arc and the processor, for a model that any of them can take.
Mixed == [Machine(<<Gpu(0, 8), ArcGpu>>, Both(Ask("tiny", AnySlot), Ask("tiny", AnySlot))) EXCEPT
            !.faults = {"origin", "crash", "other"}, !.foreign = 15, !.moves = 1, !.events = {"foreign"}]
\* A card the driver cannot run: only the processor works.
Broken == [Machine(<<Gpu(0, 8)>>, Both(Ask("tiny", Cpu0), Ask("tiny", AnySlot))) EXCEPT
            !.unusable = {Cuda0}, !.faults = {"machine"}]
\* A processor that holds the model after a pinned job, beside a free card.
Loaned == Machine(<<Gpu(0, 8)>>, Both(Ask("tiny", Cpu0), Ask("tiny", AnySlot)))
\* One card among warm plans, other software and a schedule that ends.
Evening == [Machine(<<Gpu(0, 8), CpuOff>>, Both(Ask("small", AnySlot), AskImage("seer"))) EXCEPT
            !.foreign = 15, !.moves = 3, !.events = {"foreign", "schedule", "warm"}, !.warmPlans =
                {[model |-> "small", slots |-> {Cuda0}], [model |-> "seer", slots |-> {}]}]
\* Cards unmeasured at the start; text and image jobs.
Late == [Machine(<<Gpu(0, 0), Gpu(1, 0)>>, Both(Ask("paint", AnySlot), Ask("small", Cuda1))) EXCEPT
            !.measured = Twin, !.faults = {"resource"}, !.moves = 1, !.events = {"schedule"}]

\* System RAM for one spilling job, not for two.
Tight == [Machine(<<Gpu(0, 8), ArcGpu>>, Both(Ask("spill", AnySlot), Ask("spill", AnySlot))) EXCEPT
            !.ram = 14, !.osUsed = 3]
\* No RAM for a KV cache that the server's sums put on the card.
Full == [Machine(<<Gpu(0, 8)>>, Both(Ask("rowed", AnySlot), Ask("tiny", Cuda1))) EXCEPT
            !.ram = 8, !.osUsed = 7]

\* Two cards of one vendor whose driver fails, and a model for neither.
Driver == [Machine(Twin, Both(Ask("small", AnySlot), Ask("small", AnySlot))) EXCEPT
            !.faults = {"origin"}]
Oversize == Machine(<<Gpu(0, 8)>>, Both(Ask("small", AnySlot), Ask("huge", AnySlot)))

\* A group and a pin want the same card while the schedule ends: what the eviction
\* gives back was claimed, or is at work.
Shared == [Machine(Twin, Both(Ask("large", Cuda0), Ask("small", Cuda0))) EXCEPT
            !.moves = 2, !.events = {"schedule", "smi"}, !.faults = {"other"}]

AllMachines == {Shared, Driver, Oversize, Loaned, Tight, Full, Pair, Pinning, Mixed, Broken, Evening, Late}
=============================================================================
