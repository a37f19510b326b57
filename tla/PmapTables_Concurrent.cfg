\* Two cores call pmap on the same spaces with no lock.
CONSTANTS
    Cpus = {c1, c2}
    NumFrames = 6
    KernelRoot = 1
    Idx = {0, 1}
    UpperIdx = {1}
    VAs <- MCVAs
    PAs = {pa1}
    Prots <- MCProts
    MaxOps = 2
    CallerLocks = FALSE
    NotMapped = NotMapped
    Idle = Idle
    CacheUC = CacheUC
    CacheWT = CacheWT
    CacheBad = CacheBad
SPECIFICATION Spec
PROPERTY AbsSpec
\* Every core stops after MaxOps calls, and a failed __assert halts.
CHECK_DEADLOCK FALSE
