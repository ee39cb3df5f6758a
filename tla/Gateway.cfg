SPECIFICATION GatewaySpec
SYMMETRY Alike
CONSTANTS
    Conns = {c1, c2, c3}
    Deadline = 1
    Emails = {e1}
    Users = {u1}
    Codes = {k1}
    NoCode = NoCode
    PoolSize = 1
INVARIANTS
    OneHandler
    NeverWaitsForItself
PROPERTY
    ImplementsGateServer
