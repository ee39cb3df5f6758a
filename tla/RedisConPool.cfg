SPECIFICATION FairSpec
CONSTANTS
    Threads = {t1, t2, t3, t4}
    Contexts = {c1, c2, c3}
    NoCtx = NoCtx
    PoolSize = 3
INVARIANTS
    TypeOK
    Ownership
    WakeupsSuffice
    NoStall
PROPERTIES
    ImplementsLease
    CloseReleasesWaiters
    ClosedPoolIsFreed
    NoWaitBesideIdle
