SPECIFICATION Spec
CONSTANTS
    TaskRuns = {t1, t2}
    HttpRuns = {h}
    LockTTL = 3
    TaskTimeout = 2
    MaxTime = 6
    MaxLocks = 4
SYMMETRY Symmetry
INVARIANTS
    MutualExclusion
    ExclusionUntilTTL
PROPERTY ImplementsRunLock
