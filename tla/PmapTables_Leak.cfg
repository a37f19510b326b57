\* One core creates a space, walks a lower-half VA in it (allocating its tables) and frees it.
CONSTANTS
    Cpus = {c1}
    NumFrames = 6
    KernelRoot = 1
    Idx = {0, 1}
    UpperIdx = {1}
    VAs <- MCVAs
    PAs = {pa1}
    Prots <- MCProts
    MaxOps = 3
    CallerLocks = FALSE
    NotMapped = NotMapped
    Idle = Idle
    CacheUC = CacheUC
    CacheWT = CacheWT
    CacheBad = CacheBad
SPECIFICATION Spec
INVARIANT NoLeakedTables
CHECK_DEADLOCK FALSE
