SPECIFICATION FairSpec
CONSTANTS
    Threads = {t1, t2, t3, t4, t5}
    Stubs = {s1, s2}
    NoStub = NoStub
INVARIANTS
    TypeOK
    AtMostOneLeftBehind
PROPERTIES
    ImplementsLease
    NoWaitBesideIdle
