SPECIFICATION FairLockSpec
CONSTANTS
    Task = {t1, t2}
    Routines <- OneOrder
INVARIANTS LockTypeOK NoDeadlock
PROPERTY EveryWaitEnds
