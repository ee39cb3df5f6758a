SPECIFICATION Spec
CONSTANTS
    Threads = {t1, t2}
    Contexts = {c1, c2}
    NoCtx = NoCtx
    PoolSize = 2
    Keys = {k1}
    Values = {v1, v2}
    NoValue = NoValue
    Member = Member
    MaxItems = 2
SYMMETRY Symmetry
INVARIANTS
    TypeOK
    NothingKept
PROPERTY
    ImplementsCommands
