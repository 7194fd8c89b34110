CONSTANTS
    Threads = {t1, t2, t3}
    Locks <- MCLocks
    Nobody = Nobody
    MaxGuards = 3
SPECIFICATION Spec
SYMMETRY Symmetry
INVARIANTS
    MutualExclusion
    NeverCrashes
    LeavesFree
PROPERTY IsReadWriteLock
