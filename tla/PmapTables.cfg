\* One core makes every call; six frames, so the kernel root, one private
\* and one kernel-half path fit and the allocator can also run dry.
CONSTANTS
    Cpus = {c1}
    NumFrames = 6
    KernelRoot = 1
    Idx = {0, 1}
    UpperIdx = {1}
    VAs <- MCVAs
    PAs = {pa1}
    Prots <- MCProts
    MaxOps = 5
    CallerLocks = FALSE
    NotMapped = NotMapped
    Idle = Idle
    CacheUC = CacheUC
    CacheWT = CacheWT
    CacheBad = CacheBad
SPECIFICATION FairSpec
INVARIANT TypeOK
PROPERTY AbsSpec CallsReturn
\* Every core stops after MaxOps calls, and a failed __assert halts.
CHECK_DEADLOCK FALSE
