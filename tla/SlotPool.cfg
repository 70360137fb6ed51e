SPECIFICATION Spec
CONSTANTS
    s1 = s1
    s2 = s2
    j1 = j1
    j2 = j2
    maint = maint
    warm = warm
    None = none
    Slot = {s1, s2}
    Accel = {s1, s2}
    Group <- Pair
    Refused = {}
    Job = {j1, j2}
    Image = {j2}
    Pin <- PinSecond
    Maintainer = {}
    Warmer = {}
    MaxFaults = 1
INVARIANTS TypeOK CheckoutHeld CancelsInFlight
PROPERTY KeepsContract
CHECK_DEADLOCK FALSE
