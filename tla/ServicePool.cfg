SPECIFICATION FairSpec
CONSTANTS
    Size = 3
    MaxOps = 2
INVARIANTS
    TypeOK
    RunsUntilStopped
PROPERTY
    StopEnds
