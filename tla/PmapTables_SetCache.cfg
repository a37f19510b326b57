\* One core maps a VA, then sets the cache policy of its neighbour.
CONSTANTS
    Cpus = {c1}
    NumFrames = 6
    KernelRoot = 1
    Idx = {0, 1}
    UpperIdx = {1}
    VAs <- MCVAs
    PAs = {pa1}
    Prots <- MCProts
    MaxOps = 3
    CallerLocks = FALSE
    NotMapped = NotMapped
    Idle = Idle
    CacheUC = CacheUC
    CacheWT = CacheWT
    CacheBad = CacheBad
SPECIFICATION Spec
PROPERTY SetCacheReportsMissing
\* Every core stops after MaxOps calls, and a failed __assert halts.
CHECK_DEADLOCK FALSE
