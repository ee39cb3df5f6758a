SPECIFICATION FairSpec
CONSTANTS
    Conns = {c1, c2, c3}
    Deadline = 2
INVARIANTS
    OneAccept
    StalledWriteIsGuarded
    AnsweredIsReleased
    ClosedOnlyAtDeadline
PROPERTIES
    ImplementsShortConnection
    RequestsEnd
    SignalStops
