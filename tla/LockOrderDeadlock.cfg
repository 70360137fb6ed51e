SPECIFICATION LockSpec
CONSTANTS
    Task = {t1, t2}
    Routines <- AllRoutines
INVARIANT NoDeadlock
