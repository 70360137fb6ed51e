SPECIFICATION FairSpec
CONSTANTS
    s1 = s1
    s2 = s2
    j1 = j1
    j2 = j2
    maint = maint
    warm = warm
    None = none
    Slot = {s1}
    Accel = {s1}
    Group = {}
    Refused = {}
    Job = {j1}
    Image = {}
    Pin <- PinFirst
    Maintainer = {maint}
    Warmer = {warm}
    MaxFaults = 1
PROPERTIES EveryInvokeEnds SlotsComeBack
CHECK_DEADLOCK FALSE
