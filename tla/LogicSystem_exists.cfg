SPECIFICATION Spec
CONSTANTS
    Emails = {e1, e2}
    Users = {u1}
    Codes = {k1, k2}
    NoCode = NoCode
    PoolSize = 2
PROPERTY
    SuccessMeansNoSuchUser
