\* Two cores, each holding the lock of the space it maps in, on lower-half VAs.
CONSTANTS
    Cpus = {c1, c2}
    NumFrames = 6
    KernelRoot = 1
    Idx = {0, 1}
    UpperIdx = {1}
    VAs <- MCLowerVAs
    PAs = {pa1}
    Prots <- MCWriteProt
    MaxOps = 2
    CallerLocks = TRUE
    NotMapped = NotMapped
    Idle = Idle
    CacheUC = CacheUC
    CacheWT = CacheWT
    CacheBad = CacheBad
SPECIFICATION Spec
PROPERTY AbsSpec InstallIntoAbsent
\* Every core stops after MaxOps calls, and a failed __assert halts.
CHECK_DEADLOCK FALSE
