SPECIFICATION PoolSpec
CONSTANTS
    Threads = {t1, t2}
    MaxConn = 2
    Grants = {g1, g2}
    Served = {"accept", "reject", "close", "skip", "patch_permission", "login"}
    NoThread = NoThread
INVARIANTS
    PoolConserved
    CacheSettled
PROPERTIES
    CallsEnd
