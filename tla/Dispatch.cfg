SPECIFICATION Spec
CONSTANTS
    a = a
    b = b
    Job = {a, b}
    VulkanRuntime = TRUE
    MetalRuntime = FALSE
    Catalog <- Models
    Scenarios <- AllMachines
INVARIANT TypeOK
PROPERTIES FailedSlotAvoided MissIsTrue ProcessorIsLastResort OnlyForeignLatches
    OccupiedComesBack OffScheduleGoesCold
CHECK_DEADLOCK FALSE
