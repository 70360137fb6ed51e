SPECIFICATION FairSpec
CONSTANTS
    Job = {j1, s1}
    Split = {s1}
    Pieces = 1
    Bare = {}
    Refresher = {r1, r2}
    MaxJobs = 1
    MaxChanges = 1
    MaxStarts = 1
    MaxFaults = 1
INVARIANTS TypeOK CountNeverHigh
PROPERTIES NoFalseBusy SupervisorReturns NoStateLost
CHECK_DEADLOCK FALSE
