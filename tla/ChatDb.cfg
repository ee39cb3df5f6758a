SPECIFICATION FairSpec
CONSTANTS
    Sessions = {s1, s2}
    Workers = {w1}
    Hosts = {h1, h2}
    Shards = {k1}
    NoHost = NoHost
    Nobody = Nobody
INVARIANTS
    OneRowPerWorker
    ExistsStillTrue
    ConfigHasTables
PROPERTIES
    ImplementsRegistry
    CallsEnd
