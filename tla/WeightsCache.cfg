SPECIFICATION Spec
CONSTANTS
    Model = {"A", "B"}
    Gguf <- Sizes
    Cards = {"cuda", "vulkan", "metal", "cpu"}
    Vram = 8
    LayerBudget = 24
    RamBudget = 8
    Contexts = {0, 2, 3}
    Foreign = {0, 3}
    MaxCalls = 3
    MaxTrouble = 3
INVARIANTS TypeOK ShelfIsSpare
PROPERTIES EveryCallEnds
CHECK_DEADLOCK FALSE
